---- MODULE Spec2Model ----
(***************************************************************************)
(* Verification model of the trajlapse pan/tilt time-lapse rig.            *)
(*                                                                         *)
(* Several views of the program share this module:                         *)
(*   Spec      - Positioner.goto called by several threads, next to the    *)
(*               Accelerometer sampling thread and the Camera capture loop *)
(*   SpecLapse - the TimeLapse scheduling loop, the Camera capture loop,   *)
(*               the Accelerometer loop and SIGINT                         *)
(*   SpecTraj  - Trajectory.calc_pos over bounded waypoint lists           *)
(*   SpecCam   - the Camera rolling histories (set_config, warm_up,        *)
(*               set_exposure, update_expo)                                *)
(*   SpecSched - the times of TimeLapse.run: the due test and next_img     *)
(*   SpecConf  - the configuration files: save_config, load_config and     *)
(*               the start of TimeLapse                                    *)
(*   SpecAcc   - Accelerometer.get next to the sampling loop and a goto    *)
(*   SpecMoves - the delay of successive moves of one Positioner           *)
(*   SpecMode  - the exposure mode chosen by Camera.get_exposure_fn        *)
(*   SpecIso   - the ISO and shutter time set by Camera.update_expo        *)
(*   SpecCalib - the calibration frames of Camera.run and the analyzers    *)
(*   SpecWarm  - Camera.warm_up                                            *)
(*   SpecStream - StreamingOutput.write and the readers of Server.stream   *)
(*   SpecDash  - the requests served by the dashboard Server               *)
(*   SpecGain  - Camera.change_iso next to the gain of the sensor          *)
(*   SpecHandle - the threads that use the PiCamera handle, and SIGINT     *)
(*   SpecPool  - Camera.quit and setup_analyzer_pool next to the analyzers *)
(*   SpecFault - Positioner.goto with servos that may fail                 *)
(*   SpecPause - Camera.pause and Camera.resume next to the capture loop   *)
(*   SpecLocks - the four locks of the rig under fair scheduling           *)
(* Semaphores are counters (threading.Semaphore() starts at 1, acquire     *)
(* blocks at 0, release adds 1 without an upper bound).                    *)
(***************************************************************************)
EXTENDS Integers, Sequences, FiniteSets, TLC

\* ---------------------------------------------------------------- bounds
NCallers == 2        \* threads calling Positioner.goto in Spec
MaxQueue == 1        \* shot requests outstanding in Spec
MaxSample == 2       \* distinct accelerometer readings

VARIABLES
    \* Positioner
    position,        \* Positioner._position
    locks,           \* Positioner.locks, the cooperating locks
    servo,           \* the two servo handles: commanded angles, powered or not
    sem,             \* every Semaphore of the rig, by owner
    gpc, gwhere, gk, \* per goto call: place in goto, argument, index in locks
    \* Accelerometer
    acc_pc, acc_axes, gravity, acc_quit,
    \* Camera capture loop
    cam_pc, record_event, camera_queue, quit_event,
    \* TimeLapse scheduling loop
    tl_pc, tl_position, tl_gravity,
    \* Trajectory
    config, default_pos, when, pos,
    \* Camera exposure feedback
    avg_ev, avg_wb, histo_ev, wb_red, wb_blue, analysis_queue_out, iso,
    \* TimeLapse scheduling times
    clock,           \* time.time()
    delay,           \* TimeLapse.delay
    next_img,        \* TimeLapse.next_img
    tl_now,          \* the local "now" of TimeLapse.run
    frame_idx,       \* TimeLapse.frame_idx
    sched_pc,        \* place of TimeLapse.run between the due test and the advance
    uncommitted,     \* records written to TimeLapse.database since its last commit
    snapshots,       \* indices of the numbered configuration snapshots written
    \* run configuration
    files,           \* the JSON files on disk, by path
    started,         \* TimeLapse.__init__: not called, returned, or raised
    folder,          \* TimeLapse.folder
    warmup,          \* TimeLapse.warmup
    do_analysis,     \* TimeLapse.do_analysis
    cam_cfg,         \* resolution, framerate, sensor_mode, folder of the Camera
    \* a thread calling Accelerometer.get
    get_pc,          \* outside get, or at "with self.sem"
    get_res,         \* the Acceleration that get returned last
    \* one thread driving the Positioner
    move_delay,      \* the local "delay" of the last goto that moved
    \* Camera exposure mode
    exposure_mode,   \* Camera.exposure_mode
    speed,           \* the shutter speed get_exposure_fn read last
    \* Camera ISO and shutter
    shutter_speed,   \* camera.shutter_speed, in microseconds
    iso_changed,     \* change_iso ran in the last update_expo
    expo_raised,     \* the exception update_expo left with, if any
    \* the analyzer pool
    temp_files,      \* number of files in Camera.analysis_folder
    analysis_queue_in, \* Camera.analysis_queue_in: records and None sentinels
    wpc,             \* per analyzer process: its place in analyzer()
    whold,           \* per analyzer process: the metadata it took from qin
    \* Camera.warm_up
    warm_pc,         \* place in warm_up
    warm_left,       \* seconds of the delay still to spend, one frame each
    cam_idx,         \* Camera.idx
    warm_todo,       \* iterations left of "for _ in range(self.idx)"
    warm_got,        \* results warm_up took from analysis_queue_out
    camera_mode,     \* camera.exposure_mode of the PiCamera
    \* StreamingOutput
    so_buffer,       \* the bytes held by StreamingOutput.buffer
    so_pos,          \* the stream position of StreamingOutput.buffer
    so_frame,        \* StreamingOutput.frame: <<>> for None, else <<bytes>>
    so_since,        \* the chunks written since, and with, the last FF D8 chunk
    so_writes,       \* number of write calls so far
    so_waiting,      \* readers blocked in condition.wait()
    so_woken,        \* readers notified that have not read the frame yet
    \* the dashboard Server
    current_pos,     \* Server.current_pos: <<>> for None, else <<Position>>
    srv_goto_calls,  \* calls of Server.goto_pos so far
    srv_histo_ev,    \* len(Server.histo_ev)
    srv_sampled,     \* the Accelerometer of the Server has stored a sample
    srv_page,        \* what the last request returned: a page or an exception
    srv_requests,    \* requests served so far
    \* Camera.change_iso
    ci_pc,           \* place in change_iso
    hw_gain,         \* analog_gain * digital_gain of the sensor
    last_gain,       \* the local last_gain
    gain,            \* the local gain
    ci_polls,        \* the reads of the gain so far: <<second, value>> each
    ci_time,         \* seconds slept since the call
    \* the threads that use the PiCamera handle
    hd_main,         \* place of the main thread from Camera() to the end of run
    hd_sig,          \* the SIGINT handler Camera.quit, run by the main thread
    hd_cam,          \* place of the Camera thread
    hd_closed,       \* camera.close() was called
    \* quit and setup_analyzer_pool next to the analyzer processes
    rc_pc,           \* place of the thread in setup_analyzer_pool or quit
    analyser_pool,   \* len(Camera.analyser_pool)
    rc_frames,       \* calibration frames queued so far
    rc_count,        \* calls of setup_analyzer_pool so far
    \* a thread calling Camera.pause and Camera.resume
    pause_pc         \* outside the calls, after pause, after resume

movVars == <<position, locks, servo, gpc, gwhere, gk>>
accVars == <<acc_pc, acc_axes, gravity, acc_quit>>
runVars == <<cam_pc, record_event, camera_queue, quit_event>>
tlVars == <<tl_pc, tl_position, tl_gravity>>
rigVars == <<movVars, sem, accVars, runVars, tlVars>>
trajVars == <<config, default_pos, when, pos>>
expoVars == <<avg_ev, avg_wb, histo_ev, wb_red, wb_blue, analysis_queue_out, iso>>

\* Camera.__init__: framerate=1
framerate == 1

storeVars == <<uncommitted, snapshots>>
schedVars == <<clock, delay, next_img, tl_now, frame_idx, sched_pc, storeVars>>

\* the views added to the first three
confVars == <<files, started, folder, warmup, do_analysis, cam_cfg>>
getVars == <<get_pc, get_res>>
modeVars == <<exposure_mode, speed>>
isoVars == <<shutter_speed, iso_changed, expo_raised>>
poolVars == <<temp_files, analysis_queue_in, wpc, whold>>
warmVars == <<warm_pc, warm_left, cam_idx, warm_todo, warm_got, camera_mode>>
streamVars == <<so_buffer, so_pos, so_frame, so_since, so_writes, so_waiting, so_woken>>
dashVars == <<current_pos, srv_goto_calls, srv_histo_ev, srv_sampled, srv_page, srv_requests>>
gainVars == <<ci_pc, hw_gain, last_gain, gain, ci_polls, ci_time>>
handleVars == <<hd_main, hd_sig, hd_cam, hd_closed>>
quitVars == <<rc_pc, analyser_pool, rc_frames, rc_count>>
pauseVars == <<pause_pc>>
newVars == <<streamVars, dashVars, gainVars, handleVars, quitVars, pauseVars>>
lateVars == <<isoVars, poolVars, warmVars, newVars>>
\* per view, the groups of the other late views
isoOthers == <<poolVars, warmVars, newVars>>
poolOthers == <<isoVars, warmVars, newVars>>
warmOthers == <<iso_changed, expo_raised, newVars>>
oldVars == <<getVars, move_delay, modeVars>>
\* everything but newVars
baseVars == <<isoVars, poolVars, warmVars, oldVars, schedVars, confVars, rigVars, trajVars, expoVars>>
streamOthers == <<baseVars, dashVars, gainVars, handleVars, quitVars, pauseVars>>
\* Server.goto_pos moves the Positioner of the Server
dashMoved == <<position, servo, move_delay>>
dashOthers == <<isoVars, poolVars, warmVars, getVars, modeVars, schedVars, confVars,
                locks, gpc, gwhere, gk, sem, accVars, runVars, tlVars, trajVars, expoVars,
                streamVars, gainVars, handleVars, quitVars, pauseVars>>
quitOthers == <<isoVars, warmVars, oldVars, schedVars, confVars, rigVars, trajVars,
                streamVars, dashVars, gainVars, handleVars, pauseVars>>
\* Camera.quit sets the quit_event; shoot and the capture use record_event
\* and the queue of the Camera
handleOthers == <<isoVars, poolVars, warmVars, oldVars, schedVars, confVars, movVars, sem,
                  accVars, cam_pc, tlVars, trajVars, expoVars,
                  streamVars, dashVars, gainVars, quitVars, pauseVars>>
handleFlags == <<quit_event, record_event, camera_queue>>
\* change_iso writes camera.iso and camera.exposure_mode
expoRest == <<avg_ev, avg_wb, histo_ev, wb_red, wb_blue, analysis_queue_out>>
warmRest == <<warm_pc, warm_left, cam_idx, warm_todo, warm_got>>
gainOthers == <<isoVars, poolVars, warmRest, oldVars, schedVars, confVars, rigVars,
                trajVars, expoRest, streamVars, dashVars, handleVars, quitVars, pauseVars>>
moreVars == <<oldVars, lateVars>>
auxVars == <<schedVars, confVars, moreVars>>

vars == <<rigVars, trajVars, expoVars, auxVars>>

\* ------------------------------------------------------------ Positioner
Position(pan, tilt) == [pan |-> pan, tilt |-> tilt]

\* Positioner.__init__: the impossible start position
Sentinel == Position(360, 180)

\* positions the callers ask for
Targets == {Position(0, 0), Position(70, 30)}

\* Positioner.__init__: "self.locks = locks or []"
DefaultLocks == << >>

\* Server.__init__: locks=[self.acc.lock, ]
ServerLocks == <<"accelero">>

\* a Trajectory that hands over the accelerometer lock alone
TrajectoryLocks_nocamera == <<"accelero">>

\* Trajectory.__init__: locks=[self.camera.lock, self.accelero.lock]
TrajectoryLocks == <<"camera", "accelero">>

\* the thread of TimeLapse.run is caller 0, the other callers are 1..NCallers
Callers == 0..NCallers

Samples == 1..MaxSample

\* an acquire that neither waits nor takes the semaphore
Acquire_nowait(name) ==
    sem' = sem

\* Semaphore.acquire(): blocks while the counter is 0, then takes one
Acquire(name) ==
    /\ sem[name] > 0
    /\ sem' = [sem EXCEPT ![name] = @ - 1]

\* Semaphore.release()
Release(name) ==
    sem' = [sem EXCEPT ![name] = @ + 1]

\* goto, entry, without the test on the stored position
GotoEnter_nocheck(c, where) ==
    /\ gwhere' = [gwhere EXCEPT ![c] = where]
    /\ gpc' = [gpc EXCEPT ![c] = "lock"]

\* goto, entry: "if where != self._position" is read without any lock; the
\* else branch sets pos_start = pos_stop = time.time()
GotoEnter(c, where) ==
    /\ gwhere' = [gwhere EXCEPT ![c] = where]
    /\ gpc' = [gpc EXCEPT ![c] = IF where # position THEN "lock" ELSE "else"]

GotoCall(c, where) ==
    /\ gpc[c] = "idle"
    /\ GotoEnter(c, where)
    /\ UNCHANGED <<position, locks, servo, sem, gk, accVars, runVars, tlVars, trajVars, expoVars, auxVars>>

\* "with self.lock:"
GotoLock(c) ==
    /\ gpc[c] = "lock"
    /\ Acquire("positioner")
    /\ gk' = [gk EXCEPT ![c] = 1]
    /\ gpc' = [gpc EXCEPT ![c] = IF Len(locks) = 0 THEN "move" ELSE "acquire"]
    /\ UNCHANGED <<position, locks, servo, gwhere, accVars, runVars, tlVars, trajVars, expoVars, auxVars>>

\* "for lock in self.locks: lock.acquire()", one lock per step
GotoAcquire(c) ==
    /\ gpc[c] = "acquire"
    /\ Acquire(locks[gk[c]])
    /\ gk' = [gk EXCEPT ![c] = IF gk[c] = Len(locks) THEN 1 ELSE @ + 1]
    /\ gpc' = [gpc EXCEPT ![c] = IF gk[c] = Len(locks) THEN "move" ELSE "acquire"]
    /\ UNCHANGED <<position, locks, servo, gwhere, accVars, runVars, tlVars, trajVars, expoVars, auxVars>>

\* servo_pan.move(pan); servo_tilt.move(tilt); self._position = where
GotoMove(c) ==
    /\ gpc[c] = "move"
    /\ servo' = [pan |-> gwhere[c].pan, tilt |-> gwhere[c].tilt, on |-> TRUE]
    /\ position' = gwhere[c]
    /\ gpc' = [gpc EXCEPT ![c] = "sleep"]
    /\ UNCHANGED <<locks, sem, gwhere, gk, accVars, runVars, tlVars, trajVars, expoVars, auxVars>>

\* time.sleep(delay) is over; self.stop_motors()
GotoStop(c) ==
    /\ gpc[c] = "sleep"
    /\ servo' = [servo EXCEPT !.on = FALSE]
    /\ gpc' = [gpc EXCEPT ![c] = IF Len(locks) = 0 THEN "unlock" ELSE "release"]
    /\ UNCHANGED <<position, locks, sem, gwhere, gk, accVars, runVars, tlVars, trajVars, expoVars, auxVars>>

\* "for lock in self.locks: lock.release()", in list order, one lock per step
GotoRelease(c) ==
    /\ gpc[c] = "release"
    /\ Release(locks[gk[c]])
    /\ gk' = [gk EXCEPT ![c] = IF gk[c] = Len(locks) THEN 1 ELSE @ + 1]
    /\ gpc' = [gpc EXCEPT ![c] = IF gk[c] = Len(locks) THEN "unlock" ELSE "release"]
    /\ UNCHANGED <<position, locks, servo, gwhere, accVars, runVars, tlVars, trajVars, expoVars, auxVars>>

\* end of "with self.lock:"
GotoUnlock(c) ==
    /\ gpc[c] = "unlock"
    /\ Release("positioner")
    /\ gpc' = [gpc EXCEPT ![c] = "ret"]
    /\ UNCHANGED <<position, locks, servo, gwhere, gk, accVars, runVars, tlVars, trajVars, expoVars, auxVars>>

\* "return result": the call is over, its argument is gone
GotoReturn(c) ==
    /\ gpc[c] \in {"ret", "else"}
    /\ gpc' = [gpc EXCEPT ![c] = "idle"]
    /\ gwhere' = [gwhere EXCEPT ![c] = Sentinel]
    /\ UNCHANGED <<position, locks, servo, sem, gk, accVars, runVars, tlVars, trajVars, expoVars, auxVars>>

\* --------------------------------------------------------- Accelerometer
\* "while not self.quit.is_set()": the flag is the Accelerometer's own Event
AccCheck ==
    /\ acc_pc = "loop"
    /\ acc_pc' = IF acc_quit THEN "done" ELSE "lock"
    /\ UNCHANGED <<position, locks, servo, sem, gpc, gwhere, gk, acc_axes, gravity, acc_quit, runVars, tlVars, trajVars, expoVars, auxVars>>

\* the sampling loop reads the sensor without taking the pause lock
AccLock_nolock ==
    /\ acc_pc = "lock"
    /\ acc_pc' = "read"
    /\ UNCHANGED <<movVars, sem, acc_axes, gravity, acc_quit, runVars, tlVars, trajVars, expoVars, auxVars>>

\* "with self.lock:"
AccLock ==
    /\ acc_pc = "lock"
    /\ Acquire("accelero")
    /\ acc_pc' = "read"
    /\ UNCHANGED <<movVars, acc_axes, gravity, acc_quit, runVars, tlVars, trajVars, expoVars, auxVars>>

\* t0 = round(time.time(), 3); axes = self.mma8451.get_axes_measurement()
AccRead(s) ==
    /\ acc_pc = "read"
    /\ acc_axes' = s
    /\ acc_pc' = "sem"
    /\ UNCHANGED <<position, locks, servo, sem, gpc, gwhere, gk, gravity, acc_quit, runVars, tlVars, trajVars, expoVars, auxVars>>

\* "with self.sem:"
AccSem ==
    /\ acc_pc = "sem"
    /\ Acquire("accelero_sem")
    /\ acc_pc' = "store"
    /\ UNCHANGED <<movVars, acc_axes, gravity, acc_quit, runVars, tlVars, trajVars, expoVars, auxVars>>

\* the four assignments, made under self.sem, and the end of "with self.sem:"
\* in one step; SpecAcc takes them one at a time
AccStore ==
    /\ acc_pc = "store"
    /\ gravity' = [x |-> acc_axes, y |-> acc_axes, z |-> acc_axes, t |-> acc_axes]
    /\ acc_axes' = 0
    /\ Release("accelero_sem")
    /\ acc_pc' = "release"
    /\ UNCHANGED <<movVars, acc_quit, runVars, tlVars, trajVars, expoVars, auxVars>>

\* the end of "with self.lock:" of the sampling loop without the release
AccRelease_norelease ==
    /\ acc_pc = "release"
    /\ acc_pc' = "loop"
    /\ UNCHANGED <<movVars, sem, acc_axes, gravity, acc_quit, runVars, tlVars, trajVars, expoVars, auxVars>>

\* end of "with self.lock:", then time.sleep(0.1)
AccRelease ==
    /\ acc_pc = "release"
    /\ Release("accelero")
    /\ acc_pc' = "loop"
    /\ UNCHANGED <<movVars, acc_axes, gravity, acc_quit, runVars, tlVars, trajVars, expoVars, auxVars>>

\* Accelerometer.get: "with self.sem: res = Acceleration(...)"
AcceleroGet == gravity

\* the sampling loop assigns the fields without taking self.sem
AccEnter_nosem ==
    /\ acc_pc = "sem"
    /\ acc_pc' = "gx"
    /\ UNCHANGED <<movVars, sem, acc_axes, gravity, acc_quit, runVars, tlVars, trajVars, expoVars, auxVars>>

\* "with self.sem:", entered to assign the fields one at a time
AccEnter ==
    /\ acc_pc = "sem"
    /\ Acquire("accelero_sem")
    /\ acc_pc' = "gx"
    /\ UNCHANGED <<movVars, acc_axes, gravity, acc_quit, runVars, tlVars, trajVars, expoVars, auxVars>>

\* self._gx = axes["x"]; self._gy = axes["y"]; self._gz = axes["z"], one
\* assignment per step
AccAssign ==
    /\ acc_pc \in {"gx", "gy", "gz"}
    /\ gravity' = [gravity EXCEPT ![IF acc_pc = "gx" THEN "x"
                                    ELSE IF acc_pc = "gy" THEN "y" ELSE "z"] = acc_axes]
    /\ acc_pc' = IF acc_pc = "gx" THEN "gy" ELSE IF acc_pc = "gy" THEN "gz" ELSE "stamp"
    /\ UNCHANGED <<movVars, sem, acc_axes, acc_quit, runVars, tlVars, trajVars, expoVars, auxVars>>

\* self.timestamp = t0, then the end of "with self.sem:"
AccStamp ==
    /\ acc_pc = "stamp"
    /\ gravity' = [gravity EXCEPT !.t = acc_axes]
    /\ acc_axes' = 0
    /\ Release("accelero_sem")
    /\ acc_pc' = "release"
    /\ UNCHANGED <<movVars, acc_quit, runVars, tlVars, trajVars, expoVars, auxVars>>

\* Accelerometer.get is called
GetCall ==
    /\ get_pc = "idle"
    /\ get_pc' = "sem"
    /\ UNCHANGED <<get_res, move_delay, modeVars, lateVars, schedVars, confVars, rigVars, trajVars, expoVars>>

\* get waits for the pause lock self.lock instead of self.sem
GetEnter_pauselock ==
    /\ get_pc = "sem"
    /\ Acquire("accelero")
    /\ get_pc' = "x"
    /\ UNCHANGED <<get_res, move_delay, modeVars, lateVars, schedVars, confVars, movVars, accVars, runVars, tlVars, trajVars, expoVars>>

\* get: "with self.sem:"
GetEnter ==
    /\ get_pc = "sem"
    /\ Acquire("accelero_sem")
    /\ get_pc' = "x"
    /\ UNCHANGED <<get_res, move_delay, modeVars, lateVars, schedVars, confVars, movVars, accVars, runVars, tlVars, trajVars, expoVars>>

\* get: res = Acceleration(self._gx, self._gy, self._gz, self.timestamp), one
\* attribute read per step
GetField ==
    /\ get_pc \in {"x", "y", "z", "t"}
    /\ get_res' = [get_res EXCEPT ![get_pc] = gravity[get_pc]]
    /\ get_pc' = IF get_pc = "x" THEN "y" ELSE IF get_pc = "y" THEN "z"
                 ELSE IF get_pc = "z" THEN "t" ELSE "exit"
    /\ UNCHANGED <<move_delay, modeVars, lateVars, schedVars, confVars, rigVars, trajVars, expoVars>>

\* get: end of "with self.sem:"; return res
GetReturn ==
    /\ get_pc = "exit"
    /\ Release("accelero_sem")
    /\ get_pc' = "idle"
    /\ UNCHANGED <<get_res, move_delay, modeVars, lateVars, schedVars, confVars, movVars, accVars, runVars, tlVars, trajVars, expoVars>>

\* ------------------------------------------------------------ Camera.run
\* "while not self.quit_event.is_set()"; set_exposure() is the SpecCam view
CamCheck ==
    /\ cam_pc = "loop"
    /\ cam_pc' = IF quit_event THEN "quit" ELSE "test"
    /\ UNCHANGED <<position, locks, servo, sem, gpc, gwhere, gk, accVars, record_event, camera_queue, quit_event, tlVars, trajVars, expoVars, auxVars>>

\* "if self.record_event.is_set()"
CamTest ==
    /\ cam_pc = "test"
    /\ cam_pc' = IF record_event THEN "lock" ELSE "calib"
    /\ UNCHANGED <<position, locks, servo, sem, gpc, gwhere, gk, accVars, record_event, camera_queue, quit_event, tlVars, trajVars, expoVars, auxVars>>

\* "with self.lock:"
CamLock ==
    /\ cam_pc = "lock"
    /\ Acquire("camera")
    /\ cam_pc' = "capture"
    /\ UNCHANGED <<movVars, accVars, record_event, camera_queue, quit_event, tlVars, trajVars, expoVars, auxVars>>

\* self.camera.capture(fullname, ...) returns; end of "with self.lock:"
CamCapture ==
    /\ cam_pc = "capture"
    /\ Release("camera")
    /\ cam_pc' = "put"
    /\ UNCHANGED <<movVars, accVars, record_event, camera_queue, quit_event, tlVars, trajVars, expoVars, auxVars>>

\* metadata = self.get_metadata(); ...; self.queue.put(metadata)
CamPut ==
    /\ cam_pc = "put"
    /\ camera_queue' = Append(camera_queue, "metadata")
    /\ cam_pc' = "clear"
    /\ UNCHANGED <<position, locks, servo, sem, gpc, gwhere, gk, accVars, record_event, quit_event, tlVars, trajVars, expoVars, auxVars>>

\* self.record_event.clear(); time.sleep(0.1 / framerate)
CamClear ==
    /\ cam_pc = "clear"
    /\ record_event' = FALSE
    /\ cam_pc' = "loop"
    /\ UNCHANGED <<position, locks, servo, sem, gpc, gwhere, gk, accVars, camera_queue, quit_event, tlVars, trajVars, expoVars, auxVars>>

\* the calibration frame (or the throttle), taken without the lock; the sleep
CamCalib ==
    /\ cam_pc = "calib"
    /\ cam_pc' = "loop"
    /\ UNCHANGED <<position, locks, servo, sem, gpc, gwhere, gk, accVars, record_event, camera_queue, quit_event, tlVars, trajVars, expoVars, auxVars>>

\* the "self.quit()" after the loop
CamQuit ==
    /\ cam_pc = "quit"
    /\ quit_event' = TRUE
    /\ cam_pc' = "done"
    /\ UNCHANGED <<position, locks, servo, sem, gpc, gwhere, gk, accVars, record_event, camera_queue, tlVars, trajVars, expoVars, auxVars>>

\* Camera.shoot
shoot == record_event' = TRUE

\* SIGINT: the handler installed last is Camera.quit (Camera.__init__ runs after
\* TimeLapse.__init__ installed its own); both set the shared quit_event
Sigint ==
    /\ quit_event' = TRUE
    /\ UNCHANGED <<movVars, sem, accVars, cam_pc, record_event, camera_queue, tlVars, trajVars, expoVars, auxVars>>

\* --------------------------------------------------------- TimeLapse.run
\* "while not self.quit_event.is_set()"
TLCheck ==
    /\ tl_pc = "loop"
    /\ tl_pc' = IF quit_event THEN "done" ELSE "poll"
    /\ UNCHANGED <<movVars, sem, accVars, runVars, tl_position, tl_gravity, trajVars, expoVars, auxVars>>

\* "if time.time() >= self.next_img" is false: time.sleep(0.1)
TLSleep ==
    /\ tl_pc = "poll"
    /\ tl_pc' = "loop"
    /\ UNCHANGED <<movVars, sem, accVars, runVars, tl_position, tl_gravity, trajVars, expoVars, auxVars>>

\* the shot is due: self.camera.shoot()
TLShoot ==
    /\ tl_pc = "poll"
    /\ shoot
    /\ tl_pc' = "get"
    /\ UNCHANGED <<movVars, sem, accVars, cam_pc, camera_queue, quit_event, tl_position, tl_gravity, trajVars, expoVars, auxVars>>

\* metadata = self.camera_queue.get(): blocks, without a timeout, while empty
TLGet ==
    /\ tl_pc = "get"
    /\ camera_queue # << >>
    /\ camera_queue' = Tail(camera_queue)
    /\ tl_pc' = "stamp"
    /\ UNCHANGED <<movVars, sem, accVars, cam_pc, record_event, quit_event, tl_position, tl_gravity, trajVars, expoVars, auxVars>>

\* metadata["gravity"] = self.accelero.get(), which takes the consistency lock;
\* the record is written to the database
TLStamp ==
    /\ tl_pc = "stamp"
    /\ sem["accelero_sem"] > 0
    /\ tl_gravity' = AcceleroGet
    /\ tl_pc' = "next"
    /\ UNCHANGED <<movVars, sem, accVars, runVars, tl_position, trajVars, expoVars, auxVars>>

\* next_pos = self.trajectory.calc_pos(...); "if next_pos != self.position":
\* self.trajectory.goto_pos(next_pos) enters Positioner.goto
TLNext ==
    /\ tl_pc = "next"
    /\ \E next_pos \in Targets :
         IF next_pos # tl_position
         THEN /\ GotoEnter(0, next_pos)
              /\ tl_pc' = "goto"
         ELSE /\ tl_pc' = "loop"
              /\ UNCHANGED <<gpc, gwhere>>
    /\ UNCHANGED <<position, locks, servo, gk, sem, accVars, runVars, tl_position, tl_gravity, trajVars, expoVars, auxVars>>

\* goto_pos returned: self.position = next_pos
TLGotoDone ==
    /\ tl_pc = "goto"
    /\ gpc[0] \in {"ret", "else"}
    /\ gpc' = [gpc EXCEPT ![0] = "idle"]
    /\ gwhere' = [gwhere EXCEPT ![0] = Sentinel]
    /\ tl_position' = gwhere[0]
    /\ tl_pc' = "loop"
    /\ UNCHANGED <<position, locks, servo, gk, sem, accVars, runVars, tl_gravity, trajVars, expoVars, auxVars>>

\* ------------------------------------------------------ the two rig views
\* a shot requested, and a record taken from the queue, by the Camera's user
ShotRequest ==
    /\ Len(camera_queue) < MaxQueue
    /\ shoot
    /\ UNCHANGED <<movVars, sem, accVars, cam_pc, camera_queue, quit_event, tlVars, trajVars, expoVars, auxVars>>

QueueGet ==
    /\ camera_queue # << >>
    /\ camera_queue' = Tail(camera_queue)
    /\ UNCHANGED <<movVars, sem, accVars, cam_pc, record_event, quit_event, tlVars, trajVars, expoVars, auxVars>>

NoGravity == [x |-> 0, y |-> 0, z |-> 0, t |-> 0]

InitRig ==
    /\ sem = [n \in {"positioner", "camera", "accelero", "accelero_sem"} |-> 1]
    /\ gpc = [c \in Callers |-> "idle"]
    /\ gwhere = [c \in Callers |-> Sentinel]
    /\ gk = [c \in Callers |-> 1]
    /\ acc_pc = "loop" /\ acc_axes = 0 /\ gravity = NoGravity /\ acc_quit = FALSE
    /\ cam_pc = "loop" /\ record_event = FALSE /\ camera_queue = << >>
    /\ quit_event = FALSE
    /\ tl_pc = "loop" /\ tl_gravity = NoGravity

InitTrajIdle ==
    /\ config = << >> /\ default_pos = Sentinel /\ when = 0 /\ pos = Sentinel

\* Camera.__init__ with empty histories; camera.iso = 0 is the automatic ISO
InitExpoIdle ==
    /\ avg_ev = 1 /\ avg_wb = 1 /\ histo_ev = << >> /\ wb_red = << >> /\ wb_blue = << >>
    /\ analysis_queue_out = << >> /\ iso = 0

\* TimeLapse.__init__ with delay=10 at time 0
InitSchedIdle ==
    /\ clock = 0 /\ delay = 10 /\ next_img = 20 /\ tl_now = 0 /\ frame_idx = 0
    /\ uncommitted = 0 /\ snapshots = {}
    /\ sched_pc = "loop"

\* the JSON file that is not there
NoFile == [missing |-> TRUE]

\* TimeLapse.config_file and the indexed copy written by save_config(index)
Paths == {"parameters.json", "parameters_00010.json"}

\* Camera.__init__ defaults: resolution=(4056, 3040), framerate=1, sensor_mode=3
DefaultCamCfg ==
    [resolution |-> <<4056, 3040>>, framerate |-> framerate,
     sensor_mode |-> 3, folder |-> "/tmp"]

\* TimeLapse.__init__ defaults, no file on disk
InitConfIdle ==
    /\ files = [p \in Paths |-> NoFile] /\ started = "off"
    /\ folder = "/tmp" /\ warmup = 10 /\ do_analysis = FALSE
    /\ cam_cfg = DefaultCamCfg

\* no call of Accelerometer.get yet
InitGetIdle == get_pc = "idle" /\ get_res = [x |-> 0, y |-> 0, z |-> 0, t |-> 0]

\* no goto yet
InitDelayIdle == move_delay = 0

\* Camera.__init__: self.exposure_mode = "auto"; no frame read yet
InitModeIdle == exposure_mode = "auto" /\ speed = 0

\* PiCamera as opened: shutter_speed 0 (automatic); no update_expo yet
InitIsoIdle == shutter_speed = 0 /\ iso_changed = FALSE /\ expo_raised = "none"

\* Camera.__init__: self.nproc = 2, self.max_analysis = 10
nproc == 2
max_analysis == 10

\* setup_analyzer_pool as called by Camera.__init__: the scratch folder
\* emptied, the queues created, nproc analyzer processes waiting on qin.get()
InitPoolIdle ==
    /\ temp_files = 0 /\ analysis_queue_in = << >>
    /\ wpc = [w \in 1..nproc |-> "get"]
    /\ whold = [w \in 1..nproc |-> "nothing"]

\* Camera.__init__: self.idx = 0, exposure mode "auto"; warm_up not called
InitWarmIdle ==
    /\ warm_pc = "idle" /\ warm_left = 0 /\ cam_idx = 0
    /\ warm_todo = 0 /\ warm_got = 0 /\ camera_mode = "auto"

\* StreamingOutput.__init__: frame None, an empty BytesIO, no reader
InitStreamIdle ==
    /\ so_buffer = << >> /\ so_pos = 0 /\ so_frame = << >> /\ so_since = << >>
    /\ so_writes = 0 /\ so_waiting = {} /\ so_woken = {}

\* Server.__init__: current_pos None, empty histories, no request yet
InitDashIdle ==
    /\ current_pos = << >> /\ srv_goto_calls = 0 /\ srv_histo_ev = 0
    /\ srv_sampled = FALSE /\ srv_page = [status |-> "none"] /\ srv_requests = 0

\* change_iso not called
InitGainIdle ==
    /\ ci_pc = "idle" /\ hw_gain = 1 /\ last_gain = 0 /\ gain = 0
    /\ ci_polls = << >> /\ ci_time = 0

\* Camera.__init__ returned: the PiCamera is open, Camera.quit is the
\* SIGINT handler, the thread is not started
InitHandleIdle ==
    /\ hd_main = "init" /\ hd_sig = "none" /\ hd_cam = "not_started" /\ hd_closed = FALSE

\* Camera.__init__ returned: setup_analyzer_pool was called once, no frame
InitQuitIdle ==
    /\ rc_pc = "idle" /\ analyser_pool = nproc /\ rc_frames = 0 /\ rc_count = 1

\* no thread has called Camera.pause
InitPauseIdle == pause_pc = "idle"

InitNewIdle ==
    /\ InitStreamIdle /\ InitDashIdle /\ InitGainIdle /\ InitHandleIdle /\ InitQuitIdle
    /\ InitPauseIdle

InitLateIdle == InitIsoIdle /\ InitPoolIdle /\ InitWarmIdle /\ InitNewIdle

InitMoreIdle == InitGetIdle /\ InitDelayIdle /\ InitModeIdle /\ InitLateIdle

InitAuxIdle == InitSchedIdle /\ InitConfIdle /\ InitMoreIdle

\* a fresh Positioner, built with any of the three lock lists of the
\* repository, shared by NCallers threads; nothing in this view reads the
\* gravity, and the sampling loop stores one and the same reading
Init ==
    /\ InitRig
    /\ position = Sentinel
    /\ locks \in {DefaultLocks, ServerLocks, TrajectoryLocks}
    /\ servo = [pan |-> Sentinel.pan, tilt |-> Sentinel.tilt, on |-> FALSE]
    /\ tl_position = Sentinel
    /\ InitTrajIdle /\ InitExpoIdle /\ InitAuxIdle

Next ==
    \/ \E c \in 1..NCallers, where \in Targets : GotoCall(c, where)
    \/ \E c \in 1..NCallers : GotoLock(c)
    \/ \E c \in 1..NCallers : GotoAcquire(c)
    \/ \E c \in 1..NCallers : GotoMove(c)
    \/ \E c \in 1..NCallers : GotoStop(c)
    \/ \E c \in 1..NCallers : GotoRelease(c)
    \/ \E c \in 1..NCallers : GotoUnlock(c)
    \/ \E c \in 1..NCallers : GotoReturn(c)
    \/ AccCheck \/ AccLock \/ AccRead(1) \/ AccSem \/ AccStore \/ AccRelease
    \/ CamCheck \/ CamTest \/ CamLock \/ CamCapture \/ CamPut \/ CamClear \/ CamCalib
    \/ ShotRequest \/ QueueGet

Spec == Init /\ [][Next]_vars

\* TimeLapse after __init__: the rig stands where trajectory.goto(delay) put it
InitLapse ==
    /\ InitRig
    /\ \E p \in Targets :
         /\ position = p
         /\ locks = TrajectoryLocks
         /\ tl_position = p
         /\ servo = [pan |-> p.pan, tilt |-> p.tilt, on |-> FALSE]
    /\ InitTrajIdle /\ InitExpoIdle /\ InitAuxIdle

NextLapse ==
    \/ TLCheck \/ TLSleep \/ TLShoot \/ TLGet \/ TLStamp \/ TLNext \/ TLGotoDone
    \/ GotoLock(0) \/ GotoAcquire(0) \/ GotoMove(0) \/ GotoStop(0)
    \/ GotoRelease(0) \/ GotoUnlock(0)
    \/ AccCheck \/ AccLock \/ (\E s \in Samples : AccRead(s))
    \/ AccSem \/ AccStore \/ AccRelease
    \/ CamCheck \/ CamTest \/ CamLock \/ CamCapture \/ CamPut \/ CamClear \/ CamCalib
    \/ CamQuit
    \/ Sigint

SpecLapse == InitLapse /\ [][NextLapse]_vars

\* the Server of stream_tilt_pan.py: a Positioner that pauses the
\* Accelerometer, one thread moving the head, the sampling loop, and a thread
\* reading the gravity with Accelerometer.get
InitAcc ==
    /\ InitRig
    /\ position = Sentinel
    /\ locks = ServerLocks
    /\ servo = [pan |-> Sentinel.pan, tilt |-> Sentinel.tilt, on |-> FALSE]
    /\ tl_position = Sentinel
    /\ InitTrajIdle /\ InitExpoIdle /\ InitAuxIdle

NextAcc ==
    \/ \E where \in Targets : GotoCall(1, where)
    \/ GotoLock(1) \/ GotoAcquire(1) \/ GotoMove(1) \/ GotoStop(1)
    \/ GotoRelease(1) \/ GotoUnlock(1) \/ GotoReturn(1)
    \/ AccCheck \/ AccLock \/ (\E s \in Samples : AccRead(s))
    \/ AccEnter \/ AccAssign \/ AccStamp \/ AccRelease
    \/ GetCall \/ GetEnter \/ GetField \/ GetReturn

SpecAcc == InitAcc /\ [][NextAcc]_vars

\* ------------------------------------------------------------ Trajectory
MaxWaypoints == 2    \* waypoints of a trajectory
MaxTime == 32        \* elapsed seconds asked of calc_pos

\* the waypoints the trajectories are made of: {pan, tilt, move, stay}
Waypoints == [pan : {0, 100}, tilt : {0, 30}, move : {0, 10}, stay : {0, 5}]

Configs == UNION {[1..n -> Waypoints] : n \in 1..MaxWaypoints}

\* Position(point.get("pan", 0), point.get("tilt", 0))
WayPos(point) == Position(point.pan, point.tilt)

\* calc_pos returns floats: a position is kept as the exact fractions
\* pan/den, tilt/den
Exact(p) == [pan |-> p.pan, tilt |-> p.tilt, den |-> 1]

\* an interpolation that measures the advance from the end of the segment
Interpolate_fromend(last_pos, next_pos, last_timestamp, remaining) ==
    LET delta == last_timestamp - remaining
    IN  [pan |-> last_pos.pan * delta + (0 - remaining) * (next_pos.pan - last_pos.pan),
         tilt |-> last_pos.tilt * delta + (0 - remaining) * (next_pos.tilt - last_pos.tilt),
         den |-> delta]

\* calc_pos, after the loop's break: adv = last_timestamp / delta and
\* last_pos + adv * (next_pos - last_pos), componentwise
Interpolate(last_pos, next_pos, last_timestamp, remaining) ==
    LET delta == last_timestamp - remaining
        delta_p == next_pos.pan - last_pos.pan
        delta_t == next_pos.tilt - last_pos.tilt
    IN  [pan |-> last_pos.pan * delta + last_timestamp * delta_p,
         tilt |-> last_pos.tilt * delta + last_timestamp * delta_t,
         den |-> delta]

\* a walk that never resets last_timestamp when it passes a waypoint
RECURSIVE Walk_keeptime(_, _, _, _, _, _)
Walk_keeptime(cfg, i, remaining, last_timestamp, last_pos, next_pos) ==
    IF i > Len(cfg) THEN Exact(next_pos)
    ELSE LET point == cfg[i]
             r1 == remaining - point.move
             r2 == r1 - point.stay
         IN  IF r1 < 0 THEN Interpolate(last_pos, WayPos(point), last_timestamp, r1)
             ELSE IF r2 < 0 THEN Exact(WayPos(point))
             ELSE Walk_keeptime(cfg, i + 1, r2, last_timestamp, WayPos(point), WayPos(point))

\* calc_pos, "for point in self.config:" from waypoint i on
RECURSIVE Walk(_, _, _, _, _, _)
Walk(cfg, i, remaining, last_timestamp, last_pos, next_pos) ==
    IF i > Len(cfg) THEN Exact(next_pos)
    ELSE LET point == cfg[i]
             r1 == remaining - point.move
             r2 == r1 - point.stay
         IN  IF r1 < 0 THEN Interpolate(last_pos, WayPos(point), last_timestamp, r1)
             ELSE IF r2 < 0 THEN Exact(WayPos(point))
             ELSE Walk(cfg, i + 1, r2, r2, WayPos(point), WayPos(point))

\* Trajectory.calc_pos(when), for the waypoint list cfg and self.default_pos
calc_pos(cfg, dflt, t) ==
    IF t < 0 THEN Exact(WayPos(cfg[1]))
    ELSE IF t <= 0 THEN Exact(dflt)
    ELSE Walk(cfg, 1, t, t, dflt, dflt)

\* Trajectory.duration
RECURSIVE SumTo(_, _)
SumTo(cfg, n) == IF n = 0 THEN 0 ELSE SumTo(cfg, n - 1) + cfg[n].stay + cfg[n].move

duration(cfg) == SumTo(cfg, Len(cfg))

\* Trajectory.__init__(config=...): self.default_pos = self.calc_pos(-1)
InitTraj ==
    /\ config \in Configs
    /\ default_pos = Position(calc_pos(config, Sentinel, 0 - 1).pan,
                              calc_pos(config, Sentinel, 0 - 1).tilt)
    /\ when = 0 - 1
    /\ pos = calc_pos(config, default_pos, 0 - 1)

\* a call of calc_pos
CalcPos ==
    /\ \E t \in (0 - 1)..MaxTime :
         /\ when' = t
         /\ pos' = calc_pos(config, default_pos, t)
    /\ UNCHANGED <<config, default_pos, rigVars, expoVars, auxVars>>

\* ------------------------------------------- Camera exposure feedback
MaxWindow == 2       \* largest averaging window avg_ev, avg_wb
MaxHist == 2         \* longest history a configuration file carries
MaxLen == 3          \* longest history followed
MaxResults == 1      \* analyzer results waiting in analysis_queue_out
MaxWarm == 2         \* calibration frames of one warm_up
MaxIso == 1600       \* ISO above which the doubling is no longer followed


\* one analysed frame: its tag stands for ev = Ev_calc + delta_Ev and for the
\* two gains rg * rm and bg * bm
Tags == {1, 2}

\* lens.calc_speed(savgol1(histo_ev)), the shutter speed at ISO 100, in
\* hundredths of 1/s: a value the float arithmetic decides
Speeds100 == {1, 100, 100000}

SeqsUpTo(n) == UNION {[1..k -> Tags] : k \in 0..n}

\* lst[-n:] for n >= 1
LastN(lst, n) ==
    IF Len(lst) <= n THEN lst ELSE SubSeq(lst, Len(lst) - n + 1, Len(lst))

\* dico.get(key, default)
DictGet(dico, key, default) ==
    IF key \in DOMAIN dico THEN dico[key] ELSE default

Max(a, b) == IF a >= b THEN a ELSE b
Min(a, b) == IF a <= b THEN a ELSE b

\* the ISO policy of update_expo and warm_up; speed = speed100 * iso / 100
\* is compared with 2.5 * framerate and 250 * framerate
IsoPolicy(cur, speed100) ==
    LET low == IF speed100 * cur < 25000 * framerate THEN Max(800, cur * 2) ELSE cur
    IN  IF speed100 * cur > 2500000 * framerate THEN Min(100, cur \div 2) ELSE low

\* update_expo on the histories h and the camera ISO: the early return, the
\* two trims, the ISO policy and change_iso
update_expo(h, speed100) ==
    IF Len(h.wb_red) * Len(h.wb_blue) = 0 THEN h
    ELSE LET trim_wb == Len(h.wb_red) > h.avg_wb
             trim_ev == Len(h.histo_ev) > h.avg_ev
         IN  [h EXCEPT
                !.wb_red = IF trim_wb THEN LastN(@, h.avg_wb) ELSE @,
                !.wb_blue = IF trim_wb THEN LastN(@, h.avg_wb) ELSE @,
                !.histo_ev = IF trim_ev THEN LastN(@, h.avg_ev) ELSE @,
                !.iso = IsoPolicy(@, speed100)]

Histories ==
    [avg_ev |-> avg_ev, avg_wb |-> avg_wb, histo_ev |-> histo_ev,
     wb_red |-> wb_red, wb_blue |-> wb_blue, iso |-> iso]

SetHistories(h) ==
    /\ avg_ev' = h.avg_ev /\ avg_wb' = h.avg_wb /\ histo_ev' = h.histo_ev
    /\ wb_red' = h.wb_red /\ wb_blue' = h.wb_blue /\ iso' = h.iso

\* the "camera" objects of the configuration files: every key is optional
NoKey == [k \in {} |-> 0]

\* a history of n frames as save_config wrote it
Saved(n) == [i \in 1..n |-> 1 + (i % 2)]

Dicos ==
    {a @@ b @@ c :
        a \in {NoKey} \cup {("avg_ev" :> n) : n \in 1..MaxWindow},
        b \in {NoKey} \cup {("avg_wb" :> n) : n \in 1..MaxWindow},
        c \in {NoKey}
              \cup {("histo_ev" :> Saved(n)) : n \in 0..MaxHist}
              \cup {("histo_ev" :> Saved(n) @@ "wb_red" :> Saved(n) @@ "wb_blue" :> Saved(n)) :
                        n \in 0..MaxHist}
              \cup {("wb_blue" :> Saved(n)) : n \in 1..MaxHist}}

\* Camera.set_config(dico)
SetConfig ==
    /\ \E dico \in Dicos :
         /\ wb_red' = DictGet(dico, "wb_red", wb_red)
         /\ wb_blue' = DictGet(dico, "wb_blue", wb_blue)
         /\ histo_ev' = DictGet(dico, "histo_ev", histo_ev)
         /\ avg_ev' = DictGet(dico, "avg_ev", avg_ev)
         /\ avg_wb' = DictGet(dico, "avg_wb", avg_wb)
    /\ UNCHANGED <<analysis_queue_out, iso, rigVars, trajVars, auxVars>>

\* an analyzer worker: qout.put(metadata)
AnalyzerResult ==
    /\ Len(analysis_queue_out) < MaxResults
    /\ \E tag \in Tags : analysis_queue_out' = Append(analysis_queue_out, tag)
    /\ UNCHANGED <<avg_ev, avg_wb, histo_ev, wb_red, wb_blue, iso, rigVars, trajVars, auxVars>>

\* the histories after the results of q were appended
Appended(h, q) ==
    [h EXCEPT !.histo_ev = @ \o q, !.wb_red = @ \o q, !.wb_blue = @ \o q]

\* the model follows histories of at most MaxLen entries
Followed(h) ==
    /\ Len(h.histo_ev) <= MaxLen /\ Len(h.wb_red) <= MaxLen
    /\ Len(h.wb_blue) <= MaxLen /\ h.iso <= MaxIso

\* Camera.set_exposure(update): drain analysis_queue_out, then update_expo
SetExposure ==
    /\ \E update \in BOOLEAN, speed100 \in Speeds100 :
         LET h == Appended(Histories, analysis_queue_out)
             u == update_expo(h, speed100)
             r == IF update THEN u ELSE h
         IN  /\ Followed(r)
             /\ SetHistories(r)
    /\ analysis_queue_out' = << >>
    /\ UNCHANGED <<rigVars, trajVars, auxVars>>

\* Camera.update_expo, called on its own (set_exposure_fixed)
UpdateExpo ==
    /\ \E speed100 \in Speeds100 :
         LET u == update_expo(Histories, speed100)
         IN  /\ Followed(u)
             /\ SetHistories(u)
    /\ UNCHANGED <<analysis_queue_out, rigVars, trajVars, auxVars>>

\* Camera.warm_up(delay), delay > 0: set_exposure_auto (ISO 0), the frames
\* captured and analysed, their results appended, the ISO policy on the ISO
\* the results carry, change_iso, then set_exposure_fixed (update_expo)
WarmUp ==
    /\ analysis_queue_out = << >>
    /\ \E results \in SeqsUpTo(MaxWarm), s1 \in Speeds100, s2 \in Speeds100 :
         /\ results # << >>
         /\ LET h == [Appended(Histories, results) EXCEPT !.iso = IsoPolicy(0, s1)]
                 u == update_expo(h, s2)
             IN  /\ Followed(u)
                 /\ SetHistories(u)
    /\ UNCHANGED <<analysis_queue_out, rigVars, trajVars, auxVars>>

\* the rig as built, before any thread runs
InitRigIdle ==
    /\ InitRig
    /\ position = Sentinel
    /\ locks = TrajectoryLocks
    /\ servo = [pan |-> Sentinel.pan, tilt |-> Sentinel.tilt, on |-> FALSE]
    /\ tl_position = Sentinel

InitCalc == InitTraj /\ InitRigIdle /\ InitExpoIdle /\ InitAuxIdle

NextTraj == CalcPos

SpecTraj == InitCalc /\ [][NextTraj]_vars

\* Camera(avg_ev=..., avg_wb=..., histo_ev=None, wb_red=None, wb_blue=None)
InitExpo ==
    /\ avg_ev \in 1..MaxWindow /\ avg_wb \in 1..MaxWindow
    /\ histo_ev = << >> /\ wb_red = << >> /\ wb_blue = << >>
    /\ analysis_queue_out = << >> /\ iso = 0

InitCam == InitExpo /\ InitRigIdle /\ InitTrajIdle /\ InitAuxIdle

NextCam == SetConfig \/ AnalyzerResult \/ SetExposure \/ UpdateExpo \/ WarmUp

SpecCam == InitCam /\ [][NextCam]_vars

\* ------------------------------------------- TimeLapse scheduling times
MaxDelay == 3        \* largest delay between two frames, in seconds
MaxClock == 22       \* seconds of wall clock followed

\* the advance of next_img without the catch-up branch
NextImg_nocatchup(next, now, d) == next + d

\* TimeLapse.run: next_img = self.next_img + self.delay;
\* self.next_img = now + self.delay if now > next_img else next_img
NextImg(next, now, d) ==
    LET candidate == next + d
    IN  IF now > candidate THEN now + d ELSE candidate

\* the wall clock advances (the sleep of the else branch, the capture, the
\* move of the rig, any statement)
SchedTick ==
    /\ clock < MaxClock
    /\ clock' = clock + 1
    /\ UNCHANGED <<delay, next_img, tl_now, frame_idx, sched_pc, storeVars, confVars, moreVars, rigVars, trajVars, expoVars>>

\* TimeLapse.run: "if time.time() >= self.next_img", the shot and its
\* record: self.database[filename] = metadata
SchedDue ==
    /\ sched_pc = "loop"
    /\ clock >= next_img
    /\ sched_pc' = "shot"
    /\ uncommitted' = uncommitted + 1
    /\ UNCHANGED <<clock, delay, next_img, tl_now, frame_idx, snapshots, confVars, moreVars, rigVars, trajVars, expoVars>>

\* the test on the frame index of a loop that commits after every frame
EveryTenth_always(idx) == TRUE

\* TimeLapse.run: "if self.frame_idx % 10 == 0"
EveryTenth(idx) == idx % 10 = 0

\* TimeLapse.run: now = time.time(), the new next_img, frame_idx += 1, and
\* on every tenth frame self.database.commit() and save_config(frame_idx)
SchedAdvance ==
    /\ sched_pc = "shot"
    /\ tl_now' = clock
    /\ next_img' = NextImg(next_img, clock, delay)
    /\ frame_idx' = frame_idx + 1
    /\ IF EveryTenth(frame_idx + 1)
         THEN uncommitted' = 0 /\ snapshots' = snapshots \cup {frame_idx + 1}
         ELSE UNCHANGED storeVars
    /\ sched_pc' = "loop"
    /\ UNCHANGED <<clock, delay, confVars, moreVars, rigVars, trajVars, expoVars>>

\* TimeLapse.__init__: start_time = last_img = time.time(),
\* next_img = last_img + 2 * delay
InitSched ==
    /\ clock = 0 /\ delay \in 1..MaxDelay /\ next_img = clock + 2 * delay
    /\ tl_now = 0 /\ frame_idx = 0 /\ sched_pc = "loop"
    /\ uncommitted = 0 /\ snapshots = {}

InitTimes ==
    /\ InitSched /\ InitConfIdle /\ InitMoreIdle
    /\ InitRigIdle /\ InitTrajIdle /\ InitExpoIdle

NextSched == SchedTick \/ SchedDue \/ SchedAdvance

SpecSched == InitTimes /\ [][NextSched]_vars

\* ---------------------------------------------------- run configuration
\* os.path.isfile
IsFile(f) == "missing" \notin DOMAIN f

\* the configuration files a user writes next to the program
UserFiles ==
    { [delay |-> 20, warmup |-> 10, folder |-> "/data", do_analysis |-> TRUE,
       trajectory |-> << [pan |-> 100, tilt |-> 30, move |-> 10, stay |-> 0],
                         [pan |-> 0, tilt |-> 0, move |-> 10, stay |-> 5] >>,
       camera |-> [avg_ev |-> 2, avg_wb |-> 1, histo_ev |-> Saved(2),
                   wb_red |-> Saved(1), wb_blue |-> Saved(1),
                   resolution |-> <<1920, 1080>>, folder |-> "/data"]],
      [delay |-> 20,
       trajectory |-> << [pan |-> 0, tilt |-> 0, move |-> 10, stay |-> 5] >>],
      [warmup |-> 0,
       trajectory |-> << [pan |-> 0, tilt |-> 0, move |-> 10, stay |-> 5] >>] }

\* the configuration the TimeLapse object and its Camera hold
Memory ==
    [delay |-> delay, folder |-> folder, warmup |-> warmup,
     do_analysis |-> do_analysis, config |-> config, h |-> Histories, c |-> cam_cfg]

SetMemory(m) ==
    /\ delay' = m.delay /\ folder' = m.folder /\ warmup' = m.warmup
    /\ do_analysis' = m.do_analysis /\ config' = m.config
    /\ SetHistories(m.h) /\ cam_cfg' = m.c

\* Camera.get_config: the history of exposure values goes under "hist_ev"
camera_get_config(m) ==
    [resolution |-> m.c.resolution, framerate |-> m.c.framerate,
     sensor_mode |-> m.c.sensor_mode, avg_ev |-> m.h.avg_ev, avg_wb |-> m.h.avg_wb,
     hist_ev |-> m.h.histo_ev, wb_red |-> m.h.wb_red, wb_blue |-> m.h.wb_blue,
     folder |-> m.c.folder]

\* Camera.set_config(dico) on the memory m
camera_set_config(m, dico) ==
    [m EXCEPT
        !.c.resolution = DictGet(dico, "resolution", @),
        !.c.framerate = DictGet(dico, "framerate", @),
        !.c.sensor_mode = DictGet(dico, "sensor_mode", @),
        !.h.wb_red = DictGet(dico, "wb_red", @),
        !.h.wb_blue = DictGet(dico, "wb_blue", @),
        !.h.histo_ev = DictGet(dico, "histo_ev", @),
        !.h.avg_ev = DictGet(dico, "avg_ev", @),
        !.h.avg_wb = DictGet(dico, "avg_wb", @),
        !.c.folder = DictGet(dico, "folder", @)]

\* TimeLapse.save_config: the dictionary written as JSON
save_config(m) ==
    [delay |-> m.delay, warmup |-> m.warmup, folder |-> m.folder,
     do_analysis |-> m.do_analysis, trajectory |-> m.config,
     camera |-> camera_get_config(m)]

\* TimeLapse.load_config once the JSON dictionary dico is read
load_config(m, dico) ==
    LET m1 == IF "trajectory" \in DOMAIN dico
              THEN [m EXCEPT !.config = dico.trajectory] ELSE m
        m2 == IF "camera" \in DOMAIN dico
              THEN camera_set_config(m1, dico.camera) ELSE m1
        m3 == [m2 EXCEPT !.delay = DictGet(dico, "delay", @),
                         !.folder = DictGet(dico, "folder", @),
                         !.warmup = DictGet(dico, "warmup", @),
                         !.do_analysis = DictGet(dico, "do_analysis", @)]
    IN  [m3 EXCEPT !.c.folder = m3.folder]

\* the fields of a TimeLapse and of its Camera before any file is read:
\* TimeLapse(delay=10, folder="/tmp", avg_awb=200, avg_ev=25)
Fresh ==
    [delay |-> 10, folder |-> "/tmp", warmup |-> 10, do_analysis |-> FALSE,
     config |-> << >>,
     h |-> [avg_ev |-> 25, avg_wb |-> 200, histo_ev |-> << >>,
            wb_red |-> << >>, wb_blue |-> << >>, iso |-> 0],
     c |-> DefaultCamCfg]

\* a user writes the configuration file
EditFile ==
    /\ \E f \in UserFiles : files' = [files EXCEPT !["parameters.json"] = f]
    /\ UNCHANGED <<started, folder, warmup, do_analysis, cam_cfg,
                   schedVars, moreVars, rigVars, trajVars, expoVars>>

\* TimeLapse.save_config(index): index None writes config_file, an index
\* writes the indexed copy
SaveConfig ==
    /\ started = "running"
    /\ \E p \in Paths : files' = [files EXCEPT ![p] = save_config(Memory)]
    /\ UNCHANGED <<started, folder, warmup, do_analysis, cam_cfg,
                   schedVars, moreVars, rigVars, trajVars, expoVars>>

\* TimeLapse.load_config(config_file): the test is on config_file, the file
\* opened is self.config_file
LoadConfig(p) ==
    /\ started = "running"
    /\ IF ~IsFile(files[p])
       THEN UNCHANGED <<started, delay, folder, warmup, do_analysis, cam_cfg,
                        config, expoVars>>
       ELSE IF ~IsFile(files["parameters.json"])
       THEN /\ started' = "error"
            /\ UNCHANGED <<delay, folder, warmup, do_analysis, cam_cfg, config, expoVars>>
       ELSE /\ SetMemory(load_config(Memory, files["parameters.json"]))
            /\ UNCHANGED <<started, analysis_queue_out>>
    /\ UNCHANGED <<files, clock, next_img, tl_now, frame_idx, sched_pc, storeVars,
                   default_pos, when, pos, moreVars, rigVars>>

\* TimeLapse.__init__(config_file="parameters.json"): the
\* fields, the Camera, Trajectory(json_file=config_file), load_config,
\* camera.warm_up(self.warmup) and the first calc_pos. An exception leaves
\* the fields as they were when it was raised.
Startup ==
    /\ \E frames \in 1..MaxWarm, speed100 \in Speeds100 :
         LET f == files["parameters.json"]
             fresh == Fresh
             results == Saved(frames)
         IN  /\ IF ~IsFile(f)
                THEN \* Trajectory.load_config: open(filename) raises
                     /\ SetMemory(fresh)
                     /\ started' = "error"
                     /\ UNCHANGED <<default_pos, when, pos>>
                ELSE LET loaded == load_config([fresh EXCEPT !.config = f.trajectory], f)
                         warm == [Appended(loaded.h, results) EXCEPT !.iso = IsoPolicy(0, speed100)]
                         dflt == WayPos(f.trajectory[1])
                     IN  /\ default_pos' = dflt
                         /\ IF loaded.warmup <= 0
                            THEN \* warm_up without a frame: "ev" is not bound
                                 /\ SetMemory(loaded)
                                 /\ started' = "error"
                                 /\ when' = 0 - 1
                                 /\ pos' = calc_pos(loaded.config, dflt, 0 - 1)
                            ELSE /\ Followed(update_expo(warm, speed100))
                                 /\ SetMemory([loaded EXCEPT !.h = update_expo(warm, speed100)])
                                 /\ started' = "running"
                                 /\ when' = loaded.delay
                                 /\ pos' = calc_pos(loaded.config, dflt, loaded.delay)
    /\ analysis_queue_out' = << >>
    /\ next_img' = clock + 2 * 10
    /\ frame_idx' = 0
    /\ sched_pc' = "loop"
    /\ UNCHANGED <<files, clock, tl_now, storeVars, moreVars, rigVars>>

InitConf ==
    /\ files \in [Paths -> {NoFile}]
    /\ started = "off"
    /\ folder = "/tmp" /\ warmup = 10 /\ do_analysis = FALSE
    /\ cam_cfg = DefaultCamCfg

InitRun ==
    /\ InitConf /\ InitSchedIdle /\ InitMoreIdle
    /\ InitRigIdle /\ InitTrajIdle /\ InitExpoIdle

NextConf ==
    \/ EditFile \/ Startup \/ SaveConfig
    \/ \E p \in Paths : LoadConfig(p)

SpecConf == InitRun /\ [][NextConf]_vars

\* ------------------------------------------------- the delay of a move
\* self.delay_60_pan = 0.3 and self.delay_60_tilt = 0.2 seconds for 60
\* degrees, in tenths of a second
delay_60_pan == 3
delay_60_tilt == 2

Abs(a) == IF a >= 0 THEN a ELSE 0 - a

\* goto: delay = max(dp * delay_60_pan / 60., dt * delay_60_tilt / 60.) + 1.0
\* with dp, dt the distances from the stored position, in 1/600 of a second
Delay(from, where) ==
    Max(Abs(from.pan - where.pan) * delay_60_pan,
        Abs(from.tilt - where.tilt) * delay_60_tilt) + 600

\* the positions Server.move lets through: tilt in [-90, 90], pan in
\* [-90, 180]; every 45 degrees
InRange ==
    {Position(p, t) : p \in {-90, -45, 0, 45, 90, 135, 180},
                      t \in {-90, -45, 0, 45, 90}}

\* Positioner.goto called by the only running thread, from entry to return:
\* no lock is contended, the servos are commanded, the delay is slept and
\* the servos are powered off
Goto(where) ==
    /\ IF where # position
         THEN /\ servo' = [pan |-> where.pan, tilt |-> where.tilt, on |-> FALSE]
              /\ move_delay' = Delay(position, where)
              /\ position' = where
         ELSE UNCHANGED <<servo, move_delay, position>>
    /\ UNCHANGED <<locks, gpc, gwhere, gk, sem, accVars, runVars, tlVars, trajVars,
                   expoVars, schedVars, confVars, getVars, modeVars, lateVars>>

InitMoves == InitRigIdle /\ InitTrajIdle /\ InitExpoIdle /\ InitAuxIdle

NextMoves == \E where \in InRange : Goto(where)

SpecMoves == InitMoves /\ [][NextMoves]_vars

\* ------------------------------------------------ claims on the move delay
\* C16 (as claimed): the first goto of a fresh Positioner, to any in-range
\* target, commands the servos, and its delay is at least the delay of a move
\* to the same target from any in-range position.
C16_FirstMoveIsLongest ==
    [][\A where \in InRange :
          (position = Sentinel /\ Goto(where)) =>
              /\ servo' = [pan |-> where.pan, tilt |-> where.tilt, on |-> FALSE]
              /\ \A from \in InRange : move_delay' >= Delay(from, where)]_vars

\* ------------------------------------------------ Camera exposure mode
MaxSpeed == 50       \* largest shutter speed a frame reports
MaxWrites == 4       \* write calls on one StreamingOutput
MaxRequests == 4     \* requests served by one dashboard Server
MaxGain == 3         \* distinct values of the sensor gain
MaxFrames == 3       \* calibration frames queued next to a reconfiguration
MaxReconf == 2       \* calls of setup_analyzer_pool on one Camera

\* the framerates the camera is run at
Framerates == {1, 2}

\* a single threshold, no band
ExposureMode_noband(mode, s, fr) ==
    IF s < 4 * fr THEN "nightpreview" ELSE "auto"

\* get_exposure_fn: the exposure mode after a frame of shutter speed s
ExposureMode(mode, s, fr) ==
    IF s < 4 * fr /\ mode = "auto" THEN "nightpreview"
    ELSE IF s > 20 * fr /\ mode = "nightpreview" THEN "auto"
    ELSE mode

\* Camera.get_exposure_fn(filename) on a frame whose EXIF gives the speed s
GetExposureFn ==
    /\ \E s \in 0..MaxSpeed :
         /\ speed' = s
         /\ exposure_mode' = ExposureMode(exposure_mode, s, cam_cfg.framerate)
    /\ UNCHANGED <<getVars, move_delay, lateVars, schedVars, confVars, rigVars, trajVars, expoVars>>

\* a Camera built with one of the framerates, in mode "auto"
InitMode ==
    /\ files = [p \in Paths |-> NoFile] /\ started = "off"
    /\ folder = "/tmp" /\ warmup = 10 /\ do_analysis = FALSE
    /\ \E fr \in Framerates : cam_cfg = [DefaultCamCfg EXCEPT !.framerate = fr]
    /\ InitModeIdle

InitFrames ==
    /\ InitMode /\ InitSchedIdle /\ InitGetIdle /\ InitDelayIdle /\ InitLateIdle
    /\ InitRigIdle /\ InitTrajIdle /\ InitExpoIdle

NextMode == GetExposureFn

SpecMode == InitFrames /\ [][NextMode]_vars

\* --------------------------------------------- claims on the exposure mode
\* C20: over any sequence of measured speeds the exposure mode is "auto" or
\* "nightpreview"; it goes from auto to nightpreview only on a speed below
\* 4 * framerate, from nightpreview to auto only on a speed above
\* 20 * framerate, and a speed within the band changes it in neither state.
C20_ModeHysteresis ==
    [][/\ exposure_mode' \in {"auto", "nightpreview"}
       /\ (exposure_mode = "auto" /\ exposure_mode' = "nightpreview")
             => speed' < 4 * cam_cfg.framerate
       /\ (exposure_mode = "nightpreview" /\ exposure_mode' = "auto")
             => speed' > 20 * cam_cfg.framerate
       /\ (GetExposureFn /\ 4 * cam_cfg.framerate <= speed'
            /\ speed' <= 20 * cam_cfg.framerate)
             => exposure_mode' = exposure_mode]_vars

\* C20 witness: the mode went to nightpreview and a later frame, with a
\* speed inside the band, left it there
C20_Witness ==
    /\ exposure_mode = "nightpreview"
    /\ 4 * cam_cfg.framerate <= speed /\ speed <= 20 * cam_cfg.framerate

\* ------------------------------------------------- the analyzer pool
\* analyzer: metadata = qin.get()
WorkerGet(w) ==
    /\ wpc[w] = "get"
    /\ analysis_queue_in # << >>
    /\ whold' = [whold EXCEPT ![w] = Head(analysis_queue_in)]
    /\ analysis_queue_in' = Tail(analysis_queue_in)
    /\ wpc' = [wpc EXCEPT ![w] = "while"]
    /\ UNCHANGED <<temp_files, poolOthers, oldVars, schedVars, confVars, rigVars,
                   trajVars, expoVars>>

\* analyzer: "while metadata is not None:" and "if fname and
\* os.path.exists(fname)"; a record whose file is gone is skipped, None ends
\* the process
WorkerTest(w) ==
    /\ wpc[w] = "while"
    /\ wpc' = [wpc EXCEPT ![w] = IF whold[w] = "None" THEN "done"
                                 ELSE IF whold[w] = "rec" THEN "process"
                                 ELSE "get"]
    /\ whold' = [whold EXCEPT ![w] = IF @ = "rec" THEN @ ELSE "nothing"]
    /\ UNCHANGED <<temp_files, analysis_queue_in, poolOthers, oldVars, schedVars,
                   confVars, rigVars, trajVars, expoVars>>

\* analyzer: res = a.process(fname); metadata.update(res); qout.put(metadata);
\* process raises when the file was removed after the os.path.exists test
WorkerPut(w) ==
    /\ wpc[w] = "process"
    /\ IF whold[w] = "lost"
         THEN /\ wpc' = [wpc EXCEPT ![w] = "raised"]
              /\ UNCHANGED analysis_queue_out
         ELSE /\ analysis_queue_out' = Append(analysis_queue_out, 1)
              /\ wpc' = [wpc EXCEPT ![w] = "unlink"]
    /\ UNCHANGED <<temp_files, analysis_queue_in, whold, poolOthers, oldVars,
                   schedVars, confVars, rigVars, trajVars, avg_ev, avg_wb, histo_ev,
                   wb_red, wb_blue, iso>>

\* analyzer: os.unlink(fname); save(fname, metadata); back to qin.get();
\* unlink raises FileNotFoundError when the file was removed meanwhile
WorkerUnlink(w) ==
    /\ wpc[w] = "unlink"
    /\ IF whold[w] = "lost"
         THEN /\ wpc' = [wpc EXCEPT ![w] = "raised"]
              /\ UNCHANGED <<temp_files, whold>>
         ELSE /\ temp_files' = temp_files - 1
              /\ whold' = [whold EXCEPT ![w] = "nothing"]
              /\ wpc' = [wpc EXCEPT ![w] = "get"]
    /\ UNCHANGED <<analysis_queue_in, poolOthers, oldVars, schedVars, confVars,
                   rigVars, trajVars, expoVars>>

\* Camera.run, no shot requested: "while not self.quit_event.is_set()",
\* set_exposure() emptying analysis_queue_out (its effect on the histories is
\* the SpecCam view), "if self.record_event.is_set()" false
CalLoop ==
    /\ cam_pc = "loop" /\ ~record_event
    /\ cam_pc' = IF quit_event THEN "quit" ELSE "listdir"
    /\ analysis_queue_out' = IF quit_event THEN analysis_queue_out ELSE << >>
    /\ UNCHANGED <<movVars, sem, accVars, record_event, camera_queue, quit_event,
                   tlVars, trajVars, avg_ev, avg_wb, histo_ev, wb_red, wb_blue, iso,
                   auxVars>>

\* the capture loop takes a calibration frame whatever the backlog
CalList_nocap ==
    /\ cam_pc = "listdir"
    /\ cam_pc' = "capture_temp"
    /\ UNCHANGED <<movVars, sem, accVars, record_event, camera_queue, quit_event,
                   tlVars, trajVars, expoVars, auxVars>>

\* "if len(os.listdir(self.analysis_folder)) < self.max_analysis:"
CalList ==
    /\ cam_pc = "listdir"
    /\ cam_pc' = IF temp_files < max_analysis THEN "capture_temp" ELSE "throttle"
    /\ UNCHANGED <<movVars, sem, accVars, record_event, camera_queue, quit_event,
                   tlVars, trajVars, expoVars, auxVars>>

\* self.idx += 1; self.camera.capture(filename, ...) writes temp_%04d.jpg
CalCapture ==
    /\ cam_pc = "capture_temp"
    /\ temp_files' = temp_files + 1
    /\ cam_pc' = "put_temp"
    /\ UNCHANGED <<movVars, sem, accVars, record_event, camera_queue, quit_event,
                   tlVars, trajVars, expoVars, schedVars, confVars, oldVars,
                   poolOthers, analysis_queue_in, wpc, whold>>

\* metadata = self.get_metadata(); self.analysis_queue_in.put(metadata); the
\* sleep at the end of the loop body
CalPut ==
    /\ cam_pc = "put_temp"
    /\ analysis_queue_in' = Append(analysis_queue_in, "rec")
    /\ cam_pc' = "loop"
    /\ UNCHANGED <<movVars, sem, accVars, record_event, camera_queue, quit_event,
                   tlVars, trajVars, expoVars, schedVars, confVars, oldVars,
                   poolOthers, temp_files, wpc, whold>>

\* logger.warning("Too many file awaiting for processing"); the two sleeps
CalThrottle ==
    /\ cam_pc = "throttle"
    /\ cam_pc' = "loop"
    /\ UNCHANGED <<movVars, sem, accVars, record_event, camera_queue, quit_event,
                   tlVars, trajVars, expoVars, auxVars>>

\* a started Camera taking calibration frames, and its analyzer processes
InitCalib == InitRigIdle /\ InitTrajIdle /\ InitExpoIdle /\ InitAuxIdle

NextCalib ==
    \/ CalLoop \/ CalList \/ CalCapture \/ CalPut \/ CalThrottle
    \/ \E w \in 1..nproc : WorkerGet(w)
    \/ \E w \in 1..nproc : WorkerTest(w)
    \/ \E w \in 1..nproc : WorkerPut(w)
    \/ \E w \in 1..nproc : WorkerUnlink(w)

SpecCalib == InitCalib /\ [][NextCalib]_vars

\* ------------------------------------- claims on the calibration backlog
\* C22: a calibration frame is captured, and its record enqueued, only when
\* fewer than 10 temp files were found pending; the number of pending temp
\* files never exceeds 10; with 10 pending the loop throttles: it goes back
\* to the loop head having captured and enqueued nothing.
C22_BacklogCapped ==
    [][/\ temp_files' <= max_analysis
       /\ (temp_files' > temp_files) => temp_files < max_analysis
       /\ (Len(analysis_queue_in') > Len(analysis_queue_in))
             => (cam_pc = "put_temp" /\ temp_files <= max_analysis)
       /\ (cam_pc = "listdir" /\ cam_pc' # "listdir" /\ temp_files >= max_analysis)
             => cam_pc' = "throttle"
       /\ (cam_pc = "throttle" /\ cam_pc' # "throttle")
             => /\ cam_pc' = "loop"
                /\ temp_files' = temp_files
                /\ analysis_queue_in' = analysis_queue_in]_vars

\* C22 witness: 10 temp files are pending and the loop throttles
C22_Witness == temp_files = max_analysis /\ cam_pc = "throttle"

\* ---------------------------------------------------- Camera.warm_up
\* warm_up(delay): end = time.time() + delay; set_exposure_auto()
WarmCall(d) ==
    /\ warm_pc = "idle"
    /\ warm_left' = d
    /\ shutter_speed' = 0 /\ iso' = 0 /\ camera_mode' = exposure_mode
    /\ warm_pc' = "frames"
    /\ UNCHANGED <<cam_idx, warm_todo, warm_got, warmOthers, poolVars, oldVars,
                   schedVars, confVars, rigVars, trajVars, avg_ev, avg_wb, histo_ev,
                   wb_red, wb_blue, analysis_queue_out>>

\* one turn of "while time.time() < end": sleep(1), self.idx += 1, the frame
\* captured into the scratch folder and its record put on analysis_queue_in
WarmFrame ==
    /\ warm_pc = "frames" /\ warm_left > 0
    /\ warm_left' = warm_left - 1
    /\ cam_idx' = cam_idx + 1
    /\ temp_files' = temp_files + 1
    /\ analysis_queue_in' = Append(analysis_queue_in, "rec")
    /\ UNCHANGED <<warm_pc, warm_todo, warm_got, camera_mode, isoVars, newVars, wpc, whold,
                   oldVars, schedVars, confVars, rigVars, trajVars, expoVars>>

\* the delay is spent: "for _ in range(self.idx):" starts
WarmFramesDone ==
    /\ warm_pc = "frames" /\ warm_left = 0
    /\ warm_todo' = cam_idx
    /\ warm_pc' = "drain"
    /\ UNCHANGED <<warm_left, cam_idx, warm_got, camera_mode, isoVars, newVars, poolVars,
                   oldVars, schedVars, confVars, rigVars, trajVars, expoVars>>

\* result = self.analysis_queue_out.get() (blocking); ev, iso bound; one
\* sample appended to each of histo_ev, wb_red, wb_blue
WarmDrain ==
    /\ warm_pc = "drain" /\ warm_todo > 0
    /\ analysis_queue_out # << >>
    /\ analysis_queue_out' = Tail(analysis_queue_out)
    /\ histo_ev' = Append(histo_ev, Head(analysis_queue_out))
    /\ wb_red' = Append(wb_red, Head(analysis_queue_out))
    /\ wb_blue' = Append(wb_blue, Head(analysis_queue_out))
    /\ warm_todo' = warm_todo - 1
    /\ warm_got' = warm_got + 1
    /\ UNCHANGED <<warm_pc, warm_left, cam_idx, camera_mode, isoVars, newVars, poolVars,
                   oldVars, schedVars, confVars, rigVars, trajVars, avg_ev, avg_wb, iso>>

\* after the for loop: speed100 = lens.calc_speed(ev) raises UnboundLocalError
\* when no result bound ev; else the ISO policy on the ISO the results carry
\* (0, the frames were taken in automatic ISO), change_iso(iso), and
\* set_exposure_fixed(): update_expo, then awb and exposure mode "off" (the
\* shutter time update_expo writes is the SpecIso view)
WarmFinish ==
    /\ warm_pc = "drain" /\ warm_todo = 0
    /\ IF warm_got = 0
         THEN /\ warm_pc' = "raised"
              /\ UNCHANGED <<camera_mode, expoVars>>
         ELSE \E s1 \in Speeds100, s2 \in Speeds100 :
                 LET h == [Histories EXCEPT !.iso = IsoPolicy(0, s1)]
                 IN  /\ SetHistories(update_expo(h, s2))
                     /\ camera_mode' = "off"
                     /\ warm_pc' = "done"
                     /\ UNCHANGED analysis_queue_out
    /\ UNCHANGED <<warm_left, cam_idx, warm_todo, warm_got, isoVars, newVars, poolVars,
                   oldVars, schedVars, confVars, rigVars, trajVars>>

\* a Camera as built, its analyzer processes waiting, and warm_up called once
InitWarm ==
    /\ avg_ev \in 1..MaxWindow /\ avg_wb \in 1..MaxWindow
    /\ histo_ev = << >> /\ wb_red = << >> /\ wb_blue = << >>
    /\ analysis_queue_out = << >> /\ iso = 0
    /\ InitRigIdle /\ InitTrajIdle /\ InitAuxIdle

NextWarm ==
    \/ \E d \in 0..MaxWarm : WarmCall(d)
    \/ WarmFrame \/ WarmFramesDone \/ WarmDrain \/ WarmFinish
    \/ \E w \in 1..nproc : WorkerGet(w)
    \/ \E w \in 1..nproc : WorkerTest(w)
    \/ \E w \in 1..nproc : WorkerPut(w)
    \/ \E w \in 1..nproc : WorkerUnlink(w)

SpecWarm == InitWarm /\ [][NextWarm]_vars

\* ---------------------------------------------------- claims on warm_up
\* C23 (as claimed): for every delay >= 0 warm_up runs to its end without
\* raising: every result it takes adds one sample to each history, and at its
\* end it has taken as many results as it enqueued records and the camera is
\* in exposure mode off.
C23_WarmUpCompletes ==
    [][/\ warm_pc' # "raised"
       /\ WarmDrain => /\ Len(histo_ev') = Len(histo_ev) + 1
                       /\ Len(wb_red') = Len(wb_red) + 1
                       /\ Len(wb_blue') = Len(wb_blue) + 1
       /\ (warm_pc # "done" /\ warm_pc' = "done")
             => (warm_got = cam_idx /\ camera_mode' = "off")]_vars

\* ------------------------------------------- Camera ISO and shutter time
\* lens.calc_speed(ev), the shutter speed at ISO 100, in tenths of 1/s: from
\* a 10 s exposure to 1/30000 s
Speeds10 == {1, 3, 25, 50, 500, 2500, 5000, 20000, 50000, 300000}

\* update_expo: new_iso after the two tests on speed = speed100 * iso / 100
\* against 2.5 * framerate and 250 * framerate
NewIso(cur, speed10, fr) ==
    LET low == IF speed10 * cur < 2500 * fr THEN Max(800, cur * 2) ELSE cur
    IN  IF speed10 * cur > 250000 * fr THEN Min(100, cur \div 2) ELSE low

\* update_expo from "new_iso = iso = self.camera.iso" to the write of
\* camera.shutter_speed: change_iso(new_iso) if the ISO changes, then
\* int(1e6 / speed) with speed = speed100 * new_iso / 100, a division that
\* raises ZeroDivisionError when new_iso is 0
UpdateIso(speed10) ==
    /\ expo_raised = "none"
    /\ LET new == NewIso(iso, speed10, cam_cfg.framerate)
       IN  /\ new <= MaxIso
           /\ iso_changed' = (new # iso)
           /\ iso' = new
           /\ IF speed10 * new = 0
                THEN expo_raised' = "ZeroDivisionError" /\ UNCHANGED shutter_speed
                ELSE /\ shutter_speed' = 1000000000 \div (speed10 * new)
                     /\ UNCHANGED expo_raised
    /\ UNCHANGED <<avg_ev, avg_wb, histo_ev, wb_red, wb_blue, analysis_queue_out,
                   isoOthers, oldVars, schedVars, confVars, rigVars, trajVars>>

\* Camera.set_exposure_auto: shutter_speed = 0 and iso = 0, both automatic
SetExposureAuto ==
    /\ expo_raised = "none"
    /\ shutter_speed' = 0
    /\ iso' = 0
    /\ UNCHANGED <<avg_ev, avg_wb, histo_ev, wb_red, wb_blue, analysis_queue_out,
                   iso_changed, expo_raised, isoOthers, oldVars, schedVars, confVars,
                   rigVars, trajVars>>

\* a Camera built with one of the framerates: ISO automatic
InitIso ==
    /\ avg_ev = 1 /\ avg_wb = 1
    /\ histo_ev = << >> /\ wb_red = << >> /\ wb_blue = << >>
    /\ analysis_queue_out = << >> /\ iso = 0
    /\ InitMode /\ InitSchedIdle /\ InitGetIdle /\ InitDelayIdle /\ InitLateIdle
    /\ InitRigIdle /\ InitTrajIdle

NextIso == (\E speed10 \in Speeds10 : UpdateIso(speed10)) \/ SetExposureAuto

SpecIso == InitIso /\ [][NextIso]_vars

\* ------------------------------------------ claims on the ISO and shutter
\* C21 (as claimed): update_expo selects max(800, iso * 2) when speed is
\* under 2.5 * framerate, min(100, iso div 2) when it is over 250 * framerate
\* and the current ISO otherwise; change_iso runs exactly when the ISO
\* changes; and the shutter time int(1e6 / (speed100 * new_iso / 100)) is
\* then written.
C21_IsoPolicyThenShutter ==
    [][\A speed10 \in Speeds10 :
          UpdateIso(speed10) =>
              /\ iso' = IF speed10 * iso < 2500 * cam_cfg.framerate THEN Max(800, iso * 2)
                        ELSE IF speed10 * iso > 250000 * cam_cfg.framerate
                             THEN Min(100, iso \div 2)
                             ELSE iso
              /\ iso_changed' = (iso' # iso)
              /\ expo_raised' = "none"
              /\ shutter_speed' = 1000000000 \div (speed10 * iso')]_vars

\* ------------------------------------------ claims on the run configuration
\* a file that save_config wrote
WrittenBySave(f) ==
    /\ IsFile(f)
    /\ DOMAIN f = {"delay", "warmup", "folder", "do_analysis", "trajectory", "camera"}
    /\ "hist_ev" \in DOMAIN f.camera

\* the memory holds what the saved file f recorded
Restored(f) ==
    /\ config = f.trajectory
    /\ delay = f.delay /\ folder = f.folder
    /\ warmup = f.warmup /\ do_analysis = f.do_analysis
    /\ cam_cfg.resolution = f.camera.resolution
    /\ cam_cfg.framerate = f.camera.framerate
    /\ cam_cfg.sensor_mode = f.camera.sensor_mode
    /\ cam_cfg.folder = f.camera.folder
    /\ avg_ev = f.camera.avg_ev /\ avg_wb = f.camera.avg_wb
    /\ histo_ev = f.camera.hist_ev
    /\ wb_red = f.camera.wb_red /\ wb_blue = f.camera.wb_blue

\* C12 (as claimed): loading a file written by save_config restores the
\* trajectory, the camera configuration, delay, folder, warmup and
\* do_analysis that were saved, whatever the memory held before.
C12_SaveLoadRoundTrip ==
    [][\A p \in Paths :
        (WrittenBySave(files[p]) /\ LoadConfig(p)) => Restored(files[p])']_vars

\* C13 (as claimed): starting on a configuration path that does not exist
\* raises no error and leaves every setting at its default.
C13_MissingFileKeepsDefaults ==
    [][(~IsFile(files["parameters.json"]) /\ Startup) =>
        /\ started' = "running"
        /\ delay' = 10 /\ folder' = "/tmp" /\ warmup' = 10 /\ do_analysis' = FALSE
        /\ cam_cfg' = DefaultCamCfg]_vars

\* ------------------------------------------ claims on the scheduling times
\* C11 (as claimed): after every shot the next slot is at least delay
\* seconds after the time "now" of that shot.
C11_NextSlotDelayAfterNow ==
    frame_idx > 0 => next_img >= tl_now + delay

\* C11 (amended): every shot is taken at a time now >= the old next_img and
\* sets the next slot one delay after the old one, or one delay after now
\* when that is later; the new slot is never before now and never more than
\* delay seconds after now, so lateness does not accumulate.
C11_NextSlotWithinDelay ==
    [][frame_idx' # frame_idx =>
        /\ tl_now' >= next_img
        /\ next_img' >= next_img + delay
        /\ tl_now' <= next_img'
        /\ next_img' <= tl_now' + delay]_vars

\* C11 witness: a second shot taken late, less than one tick late
C11_Witness ==
    frame_idx >= 2 /\ tl_now < next_img /\ next_img < tl_now + delay

\* C24: the metadata store is committed and a numbered configuration
\* snapshot is written exactly on the steps that increment the frame index
\* to a positive multiple of 10, the snapshot carrying that index, and on no
\* other step; so never more than 10 written records are uncommitted.
C24_CommitEveryTenthFrame ==
    [][/\ (snapshots' # snapshots) <=>
              (frame_idx' = frame_idx + 1 /\ frame_idx' > 0 /\ frame_idx' % 10 = 0)
       /\ (snapshots' # snapshots) =>
              (snapshots' = snapshots \cup {frame_idx'} /\ uncommitted' = 0)
       /\ (uncommitted' < uncommitted) => (snapshots' # snapshots)
       /\ (uncommitted' > uncommitted) =>
              (uncommitted' = uncommitted + 1 /\ snapshots' = snapshots)
       /\ uncommitted' <= 10]_vars

\* C24 witness: ten records wait for the second commit
C24_Witness ==
    10 \in snapshots /\ frame_idx = 19 /\ uncommitted = 10 /\ sched_pc = "shot"

\* ------------------------------------------ claims on the exposure view
\* C8 (as claimed): after any sequence of set_config, warm_up, set_exposure
\* and update_expo no history is longer than its averaging window.
C8_HistoriesWithinWindow ==
    /\ Len(histo_ev) <= avg_ev
    /\ Len(wb_red) <= avg_wb
    /\ Len(wb_blue) <= avg_wb

\* C19 (as claimed): when update_expo goes past its early return and calls
\* the smoothing filters, each of the three histories it hands over holds at
\* most its window of samples, and they are the most recent samples of the
\* history as it stood, in their order.
C19_FiltersSeeTrimmedHistories ==
    [][(UpdateExpo /\ Len(wb_red) * Len(wb_blue) # 0) =>
          /\ Len(histo_ev') <= avg_ev /\ histo_ev' = LastN(histo_ev, avg_ev)
          /\ Len(wb_red') <= avg_wb /\ wb_red' = LastN(wb_red, avg_wb)
          /\ Len(wb_blue') <= avg_wb /\ wb_blue' = LastN(wb_blue, avg_wb)]_vars

\* ------------------------------------------ claims on the trajectory view
\* the schedule the waypoint list describes: waypoint i is travelled to
\* during [Start(i), Start(i) + move_i) and dwelt at until Start(i + 1)
Start(cfg, i) == SumTo(cfg, i - 1)

Schedule(cfg, t) ==
    IF t <= 0 THEN Exact(WayPos(cfg[1]))
    ELSE IF t >= SumTo(cfg, Len(cfg)) THEN Exact(WayPos(cfg[Len(cfg)]))
    ELSE LET i == CHOOSE k \in 1..Len(cfg) : Start(cfg, k) <= t /\ t < Start(cfg, k + 1)
             spent == t - Start(cfg, i)
             previous == IF i = 1 THEN WayPos(cfg[1]) ELSE WayPos(cfg[i - 1])
             target == WayPos(cfg[i])
         IN  IF spent < cfg[i].move
             THEN [pan |-> previous.pan * cfg[i].move + spent * (target.pan - previous.pan),
                   tilt |-> previous.tilt * cfg[i].move + spent * (target.tilt - previous.tilt),
                   den |-> cfg[i].move]
             ELSE Exact(target)

\* equality of two positions kept as fractions
SamePos(a, b) ==
    /\ a.den > 0 /\ b.den > 0
    /\ a.pan * b.den = b.pan * a.den
    /\ a.tilt * b.den = b.tilt * a.den

\* C9: for every non-empty waypoint list and every elapsed time, calc_pos
\* returns the position of the reference schedule (first waypoint up to t = 0,
\* linear interpolation from the previous waypoint during a travel segment,
\* the waypoint itself during its dwell, the last waypoint from the end on).
C9_CalcPosFollowsSchedule ==
    SamePos(pos, Schedule(config, when))

\* C9 witness: calc_pos was asked for a time strictly inside the travel to a
\* later waypoint that lies elsewhere than the one before it
C9_Witness ==
    \E i \in 2..Len(config) :
        /\ Start(config, i) < when
        /\ when < Start(config, i) + config[i].move
        /\ WayPos(config[i]) # WayPos(config[i - 1])
        /\ pos.den > 1

\* the trajectory of the specification's interpolation example
TwoWaypoints ==
    << [pan |-> 0, tilt |-> 0, move |-> 10, stay |-> 0],
       [pan |-> 100, tilt |-> 0, move |-> 10, stay |-> 5] >>

\* C10 (as claimed): on the two-waypoint trajectory calc_pos(5) is halfway
\* to the second waypoint and returns pan = 50.
C10_HalfwayAtFive ==
    (config = TwoWaypoints /\ when = 5) => pos.pan = 50 * pos.den

\* C10 (amended): on the two-waypoint trajectory the travel to the second
\* waypoint starts once the first waypoint's own 10 s of travel are over:
\* calc_pos(15) is halfway through it and returns pan = 50, tilt = 0.
C10_HalfwayAtFifteen ==
    (config = TwoWaypoints /\ when = 15) =>
        (pos.pan = 50 * pos.den /\ pos.tilt = 0)

\* C10 witness: calc_pos(15) was computed on the two-waypoint trajectory
C10_Witness ==
    config = TwoWaypoints /\ when = 15 /\ pos.den = 10

\* ------------------------------------------------- claims on the rig view
\* the physical-move section of goto: servos commanded, not yet powered off
InMove(c) == gpc[c] = "sleep"

\* goto holds every cooperating lock: about to command the servos, moving,
\* or releasing the locks after the move
MovePending(c) == gpc[c] \in {"move", "sleep", "release"}

\* the Accelerometer is inside its "with self.lock:" block, taking a reading
Sampling == acc_pc \in {"read", "sem", "store", "gx", "gy", "gz", "stamp"}

Range(f) == {f[i] : i \in DOMAIN f}

\* C1: at most one thread at a time is inside the physical-move section of
\* goto: two physical moves never overlap, whatever the cooperating locks.
C1_SingleFlight ==
    \A c1 \in Callers, c2 \in Callers : (InMove(c1) /\ InMove(c2)) => c1 = c2

\* C1 witness: one caller is moving while another waits for the internal
\* lock of a Positioner that has no cooperating lock
C1_Witness ==
    \E c1 \in Callers, c2 \in Callers :
        /\ c1 # c2 /\ InMove(c1) /\ gpc[c2] = "lock" /\ locks = DefaultLocks

\* C2 (as claimed): whenever goto issues the servo move commands, its target
\* differs from the stored current position at that moment.
C2_NoMoveToCurrent ==
    [][\A c \in Callers :
          (gpc[c] = "move" /\ gpc'[c] = "sleep") => gwhere[c] # position]_vars

\* C3: with the accelerometer pause lock in the cooperating-lock list, no
\* sensor reading is in progress while goto holds the cooperating locks for a
\* move (from before the servo commands until the locks are released).
C3_MoveExcludesSampling ==
    ("accelero" \in Range(locks)) =>
        \A c \in Callers : ~(MovePending(c) /\ Sampling)

\* C3 witness: a move is in progress and the sampling loop waits for the
\* pause lock
C3_Witness ==
    /\ "accelero" \in Range(locks)
    /\ acc_pc = "lock"
    /\ \E c \in Callers : InMove(c)

\* C4: with the list [camera lock, accelerometer lock] of the Trajectory, a
\* full-resolution capture of the capture loop and a physical move never
\* overlap.
C4_MoveExcludesCapture ==
    (locks = TrajectoryLocks) =>
        \A c \in Callers : ~(InMove(c) /\ cam_pc = "capture")

\* C4 witness: a move is in progress and the capture loop, asked for a shot,
\* waits for the camera lock
C4_Witness ==
    /\ locks = TrajectoryLocks
    /\ cam_pc = "lock"
    /\ record_event
    /\ \E c \in Callers : InMove(c)

\* C14 (as claimed): in every goto that moves, the cooperating locks are
\* acquired in list order while the internal lock is held, and after the
\* servos were powered off they are released in the reverse of that order: the
\* k-th release gives back the k-th lock counted from the end of the list.
C14_AcquireInOrderReleaseInReverse ==
    [][\A c \in Callers :
          /\ GotoAcquire(c) =>
                /\ sem["positioner"] = 0
                /\ sem'[locks[gk[c]]] = sem[locks[gk[c]]] - 1
          /\ GotoRelease(c) =>
                /\ ~servo.on
                /\ sem'[locks[Len(locks) + 1 - gk[c]]]
                       = sem[locks[Len(locks) + 1 - gk[c]]] + 1]_vars

\* C15: a goto whose target equals the stored position takes the else branch
\* (pos_start = pos_stop), and from its entry to its return it commands no
\* servo, acquires no lock and leaves the stored position alone; a goto to
\* the position a finished move just reached is such a call.
C15_NoMoveOnSameTarget ==
    [][\A c \in Callers :
          /\ (gpc[c] = "idle" /\ gpc'[c] # "idle" /\ gwhere'[c] = position)
                => (gpc'[c] = "else" /\ sem' = sem /\ servo' = servo
                    /\ position' = position)
          /\ (gpc[c] = "else" /\ gpc'[c] # "else")
                => (gpc'[c] = "idle" /\ sem' = sem /\ servo' = servo
                    /\ position' = position)]_vars

\* C15 witness: after a move that ended (servos off, locks given back), a
\* second goto to the same position is in its else branch
C15_Witness ==
    \E c \in Callers :
        /\ gpc[c] = "else" /\ gwhere[c] = position /\ position # Sentinel
        /\ ~servo.on /\ \A n \in DOMAIN sem : sem[n] = 1

\* ------------------------------------------ claims on Accelerometer.get
\* C17: every value Accelerometer.get returns is all-absent or the x, y, z
\* and timestamp of one single sample, never fields of two samples.
C17_GetReturnsOneSample ==
    get_pc = "idle" =>
        \/ get_res = NoGravity
        \/ /\ get_res.x \in Samples
           /\ get_res.y = get_res.x /\ get_res.z = get_res.x /\ get_res.t = get_res.x

\* C17 witness: get has returned a whole sample while the sampling loop,
\* holding another reading, waits for self.sem or is half-way through storing
C17_Witness ==
    /\ get_pc = "idle" /\ get_res # NoGravity
    /\ acc_pc \in {"sem", "gy", "gz", "stamp"} /\ acc_axes # get_res.x

\* C18: get waits for self.sem alone: a get that has been called can enter
\* (and then runs to its return without waiting) whenever the pause lock is
\* held for a move or by the sampling loop reading the sensor.
C18_GetRunsWhilePaused ==
    (get_pc = "sem" /\ ((\E c \in Callers : MovePending(c)) \/ acc_pc = "read"))
        => ENABLED GetEnter

\* C18 witness: a get is inside "with self.sem" while the head moves and the
\* sampling loop waits for the pause lock
C18_Witness ==
    /\ get_pc \in {"x", "y", "z", "t", "exit"}
    /\ sem["accelero"] = 0 /\ acc_pc = "lock"
    /\ \E c \in Callers : InMove(c)

\* ----------------------------------------------- claims on the lapse view
\* C5 (as claimed): while the quit flag is unset a shot request is answered
\* by a record: when the scheduling loop waits for the metadata, the record is
\* queued, or the capture loop is serving the request, or the request flag is
\* still set for the capture loop to see.
C5_ShotAnswered ==
    (tl_pc = "get" /\ ~quit_event) =>
        \/ camera_queue # << >>
        \/ record_event
        \/ cam_pc \in {"lock", "capture", "put"}

\* C6 (as claimed): once the quit flag is set, each of the three loops leaves
\* at its next loop-condition check.
C6_QuitObservedByAllLoops ==
    [][quit_event =>
          /\ (cam_pc = "loop" /\ cam_pc' # "loop") => cam_pc' = "quit"
          /\ (tl_pc = "loop" /\ tl_pc' # "loop") => tl_pc' = "done"
          /\ (acc_pc = "loop" /\ acc_pc' # "loop") => acc_pc' = "done"]_vars

\* C7 (as claimed): after the quit flag is set nothing stays blocked forever:
\* the scheduling loop is never left waiting on the empty capture queue once
\* the capture loop, the only producer, has ended.
C7_NoWaitForever ==
    ~(quit_event /\ tl_pc = "get" /\ camera_queue = << >> /\ cam_pc = "done")


\* ------------------------------------------------------ StreamingOutput
\* the chunks the encoder hands to write: with and without the bytes FF D8
\* at their start, the empty chunk among them
Chunks ==
    {<< >>, <<255>>, <<216, 255>>, <<255, 216>>, <<255, 216, 255>>, <<1, 255, 216>>}

\* the clients in Server.stream
Readers == {"r1", "r2"}

\* buf.startswith(b'\xff\xd8')
StartsWithSOI(buf) == Len(buf) >= 2 /\ buf[1] = 255 /\ buf[2] = 216

\* a BytesIO whose truncate() does nothing
Truncate_keep(b, p) == b

\* io.BytesIO.truncate(): cuts the stream at the current position
Truncate(b, p) == IF p < Len(b) THEN SubSeq(b, 1, p) ELSE b

\* io.BytesIO.write(buf) at position p: overwrites, and extends past the end
WriteAt(b, p, buf) ==
    [i \in 1..Max(Len(b), p + Len(buf)) |->
        IF i > p /\ i <= p + Len(buf) THEN buf[i - p] ELSE b[i]]

\* StreamingOutput.write(buf)
StreamWrite(buf) ==
    /\ so_writes < MaxWrites
    /\ so_writes' = so_writes + 1
    /\ IF StartsWithSOI(buf)
         THEN /\ so_frame' = <<Truncate(so_buffer, so_pos)>>
              /\ so_woken' = so_woken \cup so_waiting
              /\ so_waiting' = {}
              /\ so_buffer' = WriteAt(Truncate(so_buffer, so_pos), 0, buf)
              /\ so_pos' = Len(buf)
              /\ so_since' = buf
         ELSE /\ so_buffer' = WriteAt(so_buffer, so_pos, buf)
              /\ so_pos' = so_pos + Len(buf)
              /\ so_since' = so_since \o buf
              /\ UNCHANGED <<so_frame, so_waiting, so_woken>>
    /\ UNCHANGED streamOthers

\* Server.stream: "with self.streamout.condition: condition.wait()"
StreamWait(r) ==
    /\ r \notin so_waiting /\ r \notin so_woken
    /\ so_waiting' = so_waiting \cup {r}
    /\ UNCHANGED <<so_buffer, so_pos, so_frame, so_since, so_writes, so_woken, streamOthers>>

\* Server.stream: a notified reader takes the lock again and returns the frame
StreamRead(r) ==
    /\ r \in so_woken
    /\ so_woken' = so_woken \ {r}
    /\ UNCHANGED <<so_buffer, so_pos, so_frame, so_since, so_writes, so_waiting, streamOthers>>

InitStream ==
    /\ InitRigIdle /\ InitTrajIdle /\ InitExpoIdle /\ InitAuxIdle

NextStream ==
    \/ \E buf \in Chunks : StreamWrite(buf)
    \/ \E r \in Readers : StreamWait(r)
    \/ \E r \in Readers : StreamRead(r)

SpecStream == InitStream /\ [][NextStream]_vars

\* ------------------------------------------ claims on the streaming buffer
\* C25: a write of a chunk that does not start with FF D8 publishes nothing
\* and wakes nobody; a write of a chunk that starts with FF D8 publishes
\* exactly the chunks written since, and with, the previous such chunk (all
\* the chunks so far when there was none), wakes every waiting reader and
\* restarts the accumulation with this chunk; after every write the buffer
\* up to its position is the accumulation with the chunk appended.
C25_FramePublishedOnMarker ==
    [][\A buf \in Chunks : StreamWrite(buf) =>
        /\ ~StartsWithSOI(buf) =>
              /\ so_frame' = so_frame
              /\ so_waiting' = so_waiting /\ so_woken' = so_woken
              /\ SubSeq(so_buffer', 1, so_pos') = SubSeq(so_buffer, 1, so_pos) \o buf
        /\ StartsWithSOI(buf) =>
              /\ so_frame' = <<so_since>>
              /\ so_waiting' = {} /\ so_waiting \subseteq so_woken'
              /\ SubSeq(so_buffer', 1, so_pos') = buf
        /\ SubSeq(so_buffer', 1, so_pos') = so_since']_vars

\* C25 witness: a frame of two bytes is published to two waiting readers
\* from a buffer that held a longer frame before
C25_Witness ==
    /\ so_writes = 4 /\ so_frame = << <<255, 216>> >>
    /\ Len(so_buffer) > 2 /\ so_woken = Readers


\* ------------------------------------------------------ dashboard Server
\* Server.setup_routes: the jog routes
PanJogs == {"pan_min", "pan_sub10", "pan_sub1", "pan_center", "pan_add1", "pan_add10", "pan_max"}
TiltJogs == {"tilt_min", "tilt_sub10", "tilt_sub1", "tilt_center", "tilt_add1", "tilt_add10", "tilt_max"}
Jogs == PanJogs \cup TiltJogs

\* Server.setup_routes: '/' and '/reload' call move() without a position
Routes == Jogs \cup {"index"}

\* Server.__init__: self.default_pos = Position(0, 0)
ServerDefaultPos == Position(0, 0)

\* Server.__init__: self.avg_ev = 200
ServerAvgEv == 200

\* what the PiCamera reports as exposure_speed and shutter_speed, in
\* microseconds; shutter_speed is 0 while the exposure is automatic
ExposureSpeeds == {0, 33333}

\* Server.pan_min .. Server.tilt_center: the position handed to move
JogTarget(h, cur) ==
    CASE h = "pan_min" -> Position(-90, cur.tilt)
      [] h = "pan_max" -> Position(180, cur.tilt)
      [] h = "tilt_min" -> Position(cur.pan, -90)
      [] h = "tilt_max" -> Position(cur.pan, 90)
      [] h = "pan_sub1" -> Position(cur.pan - 1, cur.tilt)
      [] h = "pan_add1" -> Position(cur.pan + 1, cur.tilt)
      [] h = "tilt_sub1" -> Position(cur.pan, cur.tilt - 1)
      [] h = "tilt_add1" -> Position(cur.pan, cur.tilt + 1)
      [] h = "pan_sub10" -> Position(cur.pan - 10, cur.tilt)
      [] h = "pan_add10" -> Position(cur.pan + 10, cur.tilt)
      [] h = "tilt_sub10" -> Position(cur.pan, cur.tilt - 10)
      [] h = "tilt_add10" -> Position(cur.pan, cur.tilt + 10)
      [] h = "pan_center" -> Position(0, cur.tilt)
      [] h = "tilt_center" -> Position(cur.pan, 0)

\* Server.move: the two if/elif that bound tilt and pan
ClampTilt(p) ==
    IF p.tilt < -90 THEN Position(p.pan, -90)
    ELSE IF p.tilt > 90 THEN Position(p.pan, 90) ELSE p
ClampPan(p) ==
    IF p.pan < -90 THEN Position(-90, p.tilt)
    ELSE IF p.pan > 180 THEN Position(180, p.tilt) ELSE p
Clamp(p) == ClampPan(ClampTilt(p))

\* Server.move(new_pos) from its clamping to its return, new_pos given:
\* goto_pos when the target differs from current_pos (Positioner.goto moves
\* when it differs from its own _position), then capture() ->
\* get_metadata(), the histories, the gravity and the page
Move(new_pos, exposure_speed, shutter) ==
    LET target == Clamp(new_pos)
        differs == current_pos = << >> \/ target # current_pos[1]
        Ev == IF shutter = 0 THEN "?" ELSE "ev"
    IN  /\ srv_goto_calls' = IF differs THEN srv_goto_calls + 1 ELSE srv_goto_calls
        /\ IF differs /\ target # position
             THEN /\ servo' = [pan |-> target.pan, tilt |-> target.tilt, on |-> FALSE]
                  /\ move_delay' = Delay(position, target)
                  /\ position' = target
             ELSE UNCHANGED dashMoved
        /\ IF exposure_speed = 0
             THEN \* "speed": 1e6/float(self.camera.exposure_speed)
                  /\ srv_page' = [status |-> "ZeroDivisionError"]
                  /\ UNCHANGED <<current_pos, srv_histo_ev>>
             ELSE /\ srv_histo_ev' = IF Ev = "?" THEN srv_histo_ev
                                      ELSE Min(srv_histo_ev + 1, ServerAvgEv)
                  /\ IF ~srv_sampled
                       THEN \* atan2(-grav.y, -grav.z) on Acceleration(None, ...)
                            /\ srv_page' = [status |-> "TypeError"]
                            /\ UNCHANGED current_pos
                       ELSE /\ srv_page' = [status |-> "page", Ev |-> Ev,
                                            meas_tilt |-> "deg", pos |-> target]
                            /\ current_pos' = <<target>>

\* one request on a route of the Server
DashRequest(h, exposure_speed, shutter) ==
    /\ srv_requests < MaxRequests
    /\ srv_requests' = srv_requests + 1
    /\ IF h = "index"
         THEN Move(IF current_pos = << >> THEN ServerDefaultPos ELSE current_pos[1],
                   exposure_speed, shutter)
         ELSE IF current_pos = << >>
         THEN \* self.current_pos.tilt on None
              /\ srv_page' = [status |-> "AttributeError"]
              /\ UNCHANGED <<current_pos, srv_goto_calls, srv_histo_ev, dashMoved>>
         ELSE Move(JogTarget(h, current_pos[1]), exposure_speed, shutter)
    /\ UNCHANGED <<srv_sampled, dashOthers>>

\* Accelerometer.run of the Server stores its first sample
DashSample ==
    /\ ~srv_sampled
    /\ srv_sampled' = TRUE
    /\ UNCHANGED <<current_pos, srv_goto_calls, srv_histo_ev, srv_page, srv_requests, dashMoved, dashOthers>>

InitDash ==
    /\ InitRigIdle /\ InitTrajIdle /\ InitExpoIdle /\ InitAuxIdle

NextDash ==
    \/ \E h \in Routes : \E e \in ExposureSpeeds : \E sh \in ExposureSpeeds :
          DashRequest(h, e, sh)
    \/ DashSample

SpecDash == InitDash /\ [][NextDash]_vars

\* ----------------------------------------------- claims on the dashboard
\* C26: after every jog request the position of the server has pan in
\* [-90, 180] and tilt in [-90, 90]; pan_max at pan 180 leaves the position
\* as it is and calls no move; tilt_min ends with tilt = -90.
C26_JogsClamped ==
    [][\A h \in Jogs : \A e \in ExposureSpeeds : \A sh \in ExposureSpeeds :
        DashRequest(h, e, sh) =>
          /\ current_pos' # << >>
          /\ current_pos'[1].pan \in -90..180 /\ current_pos'[1].tilt \in -90..90
          /\ (h = "pan_max" /\ current_pos # << >> /\ current_pos[1].pan = 180) =>
                (current_pos' = current_pos /\ srv_goto_calls' = srv_goto_calls)
          /\ h = "tilt_min" => current_pos'[1].tilt = -90]_vars

\* C27: every request returns a rendered page; with no accelerometer sample
\* yet the page shows the measured tilt as undefined, and with an exposure
\* speed of 0 it shows the EV as undefined and appends nothing to histo_ev.
C27_DashboardAlwaysRenders ==
    [][\A h \in Routes : \A e \in ExposureSpeeds : \A sh \in ExposureSpeeds :
        DashRequest(h, e, sh) =>
          /\ srv_page'.status = "page"
          /\ ~srv_sampled => srv_page'.meas_tilt = "?"
          /\ e = 0 => (srv_page'.Ev = "?" /\ srv_histo_ev' = srv_histo_ev)]_vars


\* ---------------------------------------------------- Camera.change_iso
\* the values analog_gain * digital_gain takes
Gains == 1..MaxGain

\* the ISO values asked for
IsoValues == {100, 200, 400, 800}

\* change_iso(iso): camera.exposure_mode = self.exposure_mode, camera.iso = iso
ChangeIsoCall(new) ==
    /\ ci_pc = "idle"
    /\ camera_mode' = exposure_mode
    /\ iso' = new
    /\ ci_pc' = "poll1"
    /\ UNCHANGED <<hw_gain, last_gain, gain, ci_polls, ci_time, gainOthers>>

\* last_gain = float(analog_gain * digital_gain)
ChangeIsoPoll1 ==
    /\ ci_pc = "poll1"
    /\ last_gain' = hw_gain
    /\ ci_polls' = Append(ci_polls, <<ci_time, hw_gain>>)
    /\ ci_pc' = "sleep2"
    /\ UNCHANGED <<hw_gain, gain, ci_time, camera_mode, iso, gainOthers>>

\* time.sleep(2)
ChangeIsoSleep2 ==
    /\ ci_pc = "sleep2"
    /\ ci_time' = ci_time + 2
    /\ ci_pc' = "poll2"
    /\ UNCHANGED <<hw_gain, last_gain, gain, ci_polls, camera_mode, iso, gainOthers>>

\* gain = float(analog_gain * digital_gain)
ChangeIsoPoll2 ==
    /\ ci_pc = "poll2"
    /\ gain' = hw_gain
    /\ ci_polls' = Append(ci_polls, <<ci_time, hw_gain>>)
    /\ ci_pc' = "while"
    /\ UNCHANGED <<hw_gain, last_gain, ci_time, camera_mode, iso, gainOthers>>

\* "while gain != last_gain: last_gain = gain; time.sleep(1)": the body
\* does not read the gain
ChangeIsoWhile ==
    /\ ci_pc = "while"
    /\ IF gain # last_gain
         THEN /\ last_gain' = gain
              /\ ci_time' = ci_time + 1
              /\ UNCHANGED <<ci_pc, gain, ci_polls>>
         ELSE /\ ci_pc' = "off"
              /\ UNCHANGED <<last_gain, gain, ci_polls, ci_time>>
    /\ UNCHANGED <<hw_gain, camera_mode, iso, gainOthers>>

\* camera.exposure_mode = "off" and the return
ChangeIsoOff ==
    /\ ci_pc = "off"
    /\ camera_mode' = "off"
    /\ ci_pc' = "done"
    /\ UNCHANGED <<hw_gain, last_gain, gain, ci_polls, ci_time, iso, gainOthers>>

\* the sensor gain moves while change_iso runs
HwGain(g) ==
    /\ ci_pc \notin {"idle", "done"}
    /\ g # hw_gain
    /\ hw_gain' = g
    /\ UNCHANGED <<ci_pc, last_gain, gain, ci_polls, ci_time, camera_mode, iso, gainOthers>>

InitGain ==
    /\ InitRigIdle /\ InitTrajIdle /\ InitExpoIdle /\ InitSchedIdle /\ InitConfIdle
    /\ InitGetIdle /\ InitDelayIdle /\ exposure_mode \in {"auto", "nightpreview"} /\ speed = 0
    /\ InitIsoIdle /\ InitPoolIdle /\ InitWarmIdle /\ InitStreamIdle /\ InitDashIdle
    /\ InitHandleIdle /\ InitQuitIdle /\ InitPauseIdle
    /\ ci_pc = "idle" /\ hw_gain \in Gains /\ last_gain = 0 /\ gain = 0
    /\ ci_polls = << >> /\ ci_time = 0

NextGain ==
    \/ \E new \in IsoValues : ChangeIsoCall(new)
    \/ ChangeIsoPoll1
    \/ ChangeIsoSleep2
    \/ ChangeIsoPoll2
    \/ ChangeIsoWhile
    \/ ChangeIsoOff
    \/ \E g \in Gains : HwGain(g)

SpecGain == InitGain /\ [][NextGain]_vars

\* ---------------------------------------------------- claims on change_iso
\* C29: change_iso returns with the ISO written and the exposure mode off,
\* and only after its last two reads of the gain, one second apart, agreed.
C29_ReturnsOnTwoAgreeingPolls ==
    [][(ci_pc = "off" /\ ci_pc' = "done") =>
        /\ camera_mode' = "off" /\ iso' \in IsoValues
        /\ Len(ci_polls) >= 2
        /\ LET n == Len(ci_polls)
           IN  /\ ci_polls[n][2] = ci_polls[n - 1][2]
               /\ ci_polls[n][1] = ci_polls[n - 1][1] + 1]_vars


\* ------------------------------------------------- the PiCamera handle
\* the main thread is inside a call on self.camera: the captures and
\* register writes of warm_up, or the close() of the signal handler
UsingMain == hd_main = "warm_up" \/ hd_sig = "close"

\* the Camera thread is inside a call on self.camera
UsingCam ==
    hd_cam \in {"set_exposure", "capture", "calibrate", "metadata", "metadata_cal", "close"}

\* TimeLapse.__init__: self.camera.warm_up(self.warmup)
HdWarmUp ==
    /\ hd_main = "init" /\ hd_sig = "none"
    /\ hd_main' = IF hd_closed THEN "raised" ELSE "warm_up"
    /\ UNCHANGED <<hd_sig, hd_cam, hd_closed, handleFlags, handleOthers>>

\* warm_up returns, trajectory.goto(self.delay)
HdWarmUpDone ==
    /\ hd_main = "warm_up" /\ hd_sig = "none"
    /\ hd_main' = IF hd_closed THEN "raised" ELSE "goto"
    /\ UNCHANGED <<hd_sig, hd_cam, hd_closed, handleFlags, handleOthers>>

\* TimeLapse.__init__: self.camera.start(), then TimeLapse.run
HdStart ==
    /\ hd_main = "goto" /\ hd_sig = "none"
    /\ hd_main' = "run"
    /\ hd_cam' = "loop"
    /\ UNCHANGED <<hd_sig, hd_closed, handleFlags, handleOthers>>

\* TimeLapse.run: the test of the loop; a frame is due: self.camera.shoot()
HdShoot ==
    /\ hd_main = "run" /\ hd_sig = "none"
    /\ ~quit_event
    /\ record_event' = TRUE
    /\ hd_main' = "get"
    /\ UNCHANGED <<hd_sig, hd_cam, hd_closed, quit_event, camera_queue, handleOthers>>

\* TimeLapse.run: metadata = self.camera_queue.get()
HdGet ==
    /\ hd_main = "get" /\ hd_sig = "none"
    /\ camera_queue # << >>
    /\ camera_queue' = Tail(camera_queue)
    /\ hd_main' = "run"
    /\ UNCHANGED <<hd_sig, hd_cam, hd_closed, quit_event, record_event, handleOthers>>

\* TimeLapse.run: "while not self.quit_event.is_set()" ends
HdRunEnds ==
    /\ hd_main = "run" /\ hd_sig = "none"
    /\ quit_event
    /\ hd_main' = "end"
    /\ UNCHANGED <<hd_sig, hd_cam, hd_closed, handleFlags, handleOthers>>

\* SIGINT: the main thread enters Camera.quit, the handler installed last
\* (Camera.__init__ after TimeLapse.__init__): quit_event.set(), then it
\* calls self.camera.close()
HdSigint ==
    /\ hd_sig = "none"
    /\ hd_main \in {"init", "warm_up", "goto", "run", "get"}
    /\ quit_event' = TRUE
    /\ hd_sig' = "close"
    /\ UNCHANGED <<hd_main, hd_cam, hd_closed, record_event, camera_queue, handleOthers>>

\* the close() of the handler returns; the handler goes on to the
\* sentinels and the joins of the pool
HdSigintClosed ==
    /\ hd_sig = "close"
    /\ hd_closed' = TRUE
    /\ hd_sig' = "join"
    /\ UNCHANGED <<hd_main, hd_cam, handleFlags, handleOthers>>

\* the handler returns to the statement it interrupted
HdSigintDone ==
    /\ hd_sig = "join"
    /\ hd_sig' = "none"
    /\ UNCHANGED <<hd_main, hd_cam, hd_closed, handleFlags, handleOthers>>

\* Camera.run: the test of the loop, then set_exposure() -> update_expo()
\* writes the camera registers; self.quit() when the flag is set
HdLoop ==
    /\ hd_cam = "loop"
    /\ hd_cam' = IF quit_event THEN "close"
                 ELSE IF hd_closed THEN "raised" ELSE "set_exposure"
    /\ UNCHANGED <<hd_main, hd_sig, hd_closed, handleFlags, handleOthers>>

\* Camera.run: "if self.record_event.is_set()", then self.camera.capture
\* of the requested frame or of a calibration frame
HdCapture ==
    /\ hd_cam = "set_exposure"
    /\ hd_cam' = IF hd_closed THEN "raised"
                 ELSE IF record_event THEN "capture" ELSE "calibrate"
    /\ UNCHANGED <<hd_main, hd_sig, hd_closed, handleFlags, handleOthers>>

\* Camera.run: metadata = self.get_metadata() reads the camera registers
HdMetadata ==
    /\ hd_cam \in {"capture", "calibrate"}
    /\ hd_cam' = IF hd_closed THEN "raised"
                 ELSE IF hd_cam = "capture" THEN "metadata" ELSE "metadata_cal"
    /\ UNCHANGED <<hd_main, hd_sig, hd_closed, handleFlags, handleOthers>>

\* Camera.run: self.queue.put(metadata), self.record_event.clear(), or the
\* put on analysis_queue_in; sleep, back to the test of the loop
HdQueued ==
    /\ hd_cam \in {"metadata", "metadata_cal"}
    /\ IF hd_closed
         THEN hd_cam' = "raised" /\ UNCHANGED <<record_event, camera_queue>>
         ELSE /\ hd_cam' = "loop"
              /\ IF hd_cam = "metadata"
                   THEN /\ camera_queue' = Append(camera_queue, "metadata")
                        /\ record_event' = FALSE
                   ELSE UNCHANGED <<record_event, camera_queue>>
    /\ UNCHANGED <<hd_main, hd_sig, hd_closed, quit_event, handleOthers>>

\* Camera.run: self.quit() at the end of run closes the handle
HdQuit ==
    /\ hd_cam = "close"
    /\ hd_closed' = TRUE
    /\ hd_cam' = "join"
    /\ UNCHANGED <<hd_main, hd_sig, handleFlags, handleOthers>>

\* Camera.quit in the Camera thread: the sentinels and the joins, then the
\* thread ends
HdQuitDone ==
    /\ hd_cam = "join"
    /\ hd_cam' = "done"
    /\ UNCHANGED <<hd_main, hd_sig, hd_closed, handleFlags, handleOthers>>

InitHandle ==
    /\ InitRigIdle /\ InitTrajIdle /\ InitExpoIdle /\ InitAuxIdle

NextHandle ==
    \/ HdWarmUp
    \/ HdWarmUpDone
    \/ HdStart
    \/ HdShoot
    \/ HdGet
    \/ HdRunEnds
    \/ HdSigint
    \/ HdSigintClosed
    \/ HdSigintDone
    \/ HdLoop
    \/ HdCapture
    \/ HdMetadata
    \/ HdQueued
    \/ HdQuit
    \/ HdQuitDone

SpecHandle == InitHandle /\ [][NextHandle]_vars

\* ------------------------------------------- claims on the camera handle
\* C28: the PiCamera handle is never used by two threads at once, and the
\* main thread uses it only before the Camera thread is started.
C28_HandleOwnedByOneThread ==
    /\ ~(UsingMain /\ UsingCam)
    /\ UsingMain => hd_cam = "not_started"


\* ------------------------------------- quit and setup_analyzer_pool
\* a record whose file is removed
Lose(item) == IF item = "rec" THEN "lost" ELSE item

\* the analyzer processes that have ended
Ended == {w \in 1..nproc : wpc[w] \in {"done", "raised"}}

\* Camera.run, calibration branch with the backlog below max_analysis: the
\* capture of temp_%04d.jpg and analysis_queue_in.put(metadata), while no
\* reconfiguration is under way
PoolEnqueue ==
    /\ rc_pc = "idle"
    /\ rc_frames < MaxFrames
    /\ temp_files < max_analysis
    /\ temp_files' = temp_files + 1
    /\ analysis_queue_in' = Append(analysis_queue_in, "rec")
    /\ rc_frames' = rc_frames + 1
    /\ UNCHANGED <<wpc, whold, rc_pc, analyser_pool, rc_count, expoVars, quitOthers>>

\* set_config -> setup_analyzer_pool: os.unlink of every file of the
\* analysis folder
RcUnlinkAll ==
    /\ rc_pc = "idle"
    /\ rc_count < MaxReconf
    /\ rc_count' = rc_count + 1
    /\ temp_files' = 0
    /\ analysis_queue_in' = [i \in 1..Len(analysis_queue_in) |-> Lose(analysis_queue_in[i])]
    /\ whold' = [w \in 1..nproc |-> Lose(whold[w])]
    /\ rc_pc' = "sentinels"
    /\ UNCHANGED <<wpc, analyser_pool, rc_frames, expoVars, quitOthers>>

\* setup_analyzer_pool: "for p in self.analyser_pool:
\* self.analysis_queue_in.put(None)"
RcSentinels ==
    /\ rc_pc = "sentinels"
    /\ analysis_queue_in' = analysis_queue_in \o [i \in 1..analyser_pool |-> "None"]
    /\ rc_pc' = "join"
    /\ UNCHANGED <<temp_files, wpc, whold, analyser_pool, rc_frames, rc_count, expoVars, quitOthers>>

\* setup_analyzer_pool: "for p in self.analyser_pool: p.join()" returns when
\* every process has ended
RcJoin ==
    /\ rc_pc = "join"
    /\ Ended = 1..nproc
    /\ rc_pc' = "start"
    /\ UNCHANGED <<poolVars, analyser_pool, rc_frames, rc_count, expoVars, quitOthers>>

\* setup_analyzer_pool: nproc new processes on the same two queues
RcStart ==
    /\ rc_pc = "start"
    /\ analyser_pool' = nproc
    /\ wpc' = [w \in 1..nproc |-> "get"]
    /\ whold' = [w \in 1..nproc |-> "nothing"]
    /\ rc_pc' = "idle"
    /\ UNCHANGED <<temp_files, analysis_queue_in, rc_frames, rc_count, expoVars, quitOthers>>

\* Camera.quit: after quit_event.set() and camera.close(), one None per
\* process of the pool
QuitSentinels ==
    /\ rc_pc = "idle"
    /\ analysis_queue_in' = analysis_queue_in \o [i \in 1..analyser_pool |-> "None"]
    /\ rc_pc' = "quit_join"
    /\ UNCHANGED <<temp_files, wpc, whold, analyser_pool, rc_frames, rc_count, expoVars, quitOthers>>

\* Camera.quit: the joins, then self.analyser_pool = []
QuitJoin ==
    /\ rc_pc = "quit_join"
    /\ Ended = 1..nproc
    /\ analyser_pool' = 0
    /\ rc_pc' = "quit_done"
    /\ UNCHANGED <<poolVars, rc_frames, rc_count, expoVars, quitOthers>>

InitPool ==
    /\ InitRigIdle /\ InitTrajIdle /\ InitExpoIdle /\ InitAuxIdle

NextPool ==
    \/ PoolEnqueue
    \/ RcUnlinkAll
    \/ RcSentinels
    \/ RcJoin
    \/ RcStart
    \/ QuitSentinels
    \/ QuitJoin
    \/ \E w \in 1..nproc : WorkerGet(w)
    \/ \E w \in 1..nproc : WorkerTest(w)
    \/ \E w \in 1..nproc : WorkerPut(w)
    \/ \E w \in 1..nproc : WorkerUnlink(w)

SpecPool == InitPool /\ [][NextPool]_vars

\* ------------------------------------- claims on the sentinel protocol
\* C30: quit and reconfiguration queue one None per process of the pool and
\* join them; a process ends only by taking a None, after the records queued
\* before it, so that at the return of the joins the queue is empty; the
\* reconfiguration ends with nproc new processes and none of them ends
\* without a new None; no queued record loses its file before its result.
C30_SentinelProtocol ==
    [][/\ (rc_pc \in {"idle", "sentinels"} /\ rc_pc' \in {"join", "quit_join"}) =>
              /\ Len(analysis_queue_in') = Len(analysis_queue_in) + analyser_pool
              /\ \A i \in 1..Len(analysis_queue_in') :
                    i > Len(analysis_queue_in) => analysis_queue_in'[i] = "None"
       /\ \A w \in 1..nproc : wpc'[w] # "raised"
       /\ \A w \in 1..nproc :
              (wpc[w] # "done" /\ wpc'[w] = "done") => rc_pc \in {"join", "quit_join"}
       /\ (rc_pc \in {"join", "quit_join"} /\ rc_pc' # rc_pc) =>
              analysis_queue_in = << >>
       /\ (rc_pc = "start" /\ rc_pc' = "idle") =>
              (analyser_pool' = nproc /\ \A w \in 1..nproc : wpc'[w] = "get")
       /\ \A w \in 1..nproc : whold'[w] # "lost"
       /\ \A i \in 1..Len(analysis_queue_in') : analysis_queue_in'[i] # "lost"]_vars

\* ------------------------------------------- goto and failing servos
\* servo_pan.move(pan) or servo_tilt.move(tilt) raises: the exception leaves
\* "with self.lock:", which releases the internal lock; the loop
\* "for lock in self.locks: lock.release()" is not in a finally clause and is
\* skipped; self._position is not assigned
GotoMoveRaises(c) ==
    /\ gpc[c] = "move"
    /\ servo' \in {servo, [servo EXCEPT !.pan = gwhere[c].pan, !.on = TRUE]}
    /\ Release("positioner")
    /\ gpc' = [gpc EXCEPT ![c] = "raised"]
    /\ UNCHANGED <<position, locks, gwhere, gk, accVars, runVars, tlVars, trajVars, expoVars, auxVars>>

\* the exception reaches the caller of goto
GotoRaised(c) ==
    /\ gpc[c] = "raised"
    /\ gpc' = [gpc EXCEPT ![c] = "idle"]
    /\ gwhere' = [gwhere EXCEPT ![c] = Sentinel]
    /\ UNCHANGED <<position, locks, servo, sem, gk, accVars, runVars, tlVars, trajVars, expoVars, auxVars>>

\* stop_motors: servo_pan.off() raises IOError, "except IOError as err:
\* print(err)"; the servos stay powered and goto goes on
GotoOffFails(c) ==
    /\ gpc[c] = "sleep"
    /\ gpc' = [gpc EXCEPT ![c] = IF Len(locks) = 0 THEN "unlock" ELSE "release"]
    /\ UNCHANGED <<position, locks, servo, sem, gwhere, gk, accVars, runVars, tlVars, trajVars, expoVars, auxVars>>

\* one thread moving the head of the TimeLapse rig with servos that may fail,
\* next to the capture loop and the sampling loop
NextFault ==
    \/ \E where \in Targets : GotoCall(1, where)
    \/ GotoLock(1) \/ GotoAcquire(1) \/ GotoMove(1) \/ GotoStop(1)
    \/ GotoRelease(1) \/ GotoUnlock(1) \/ GotoReturn(1)
    \/ GotoMoveRaises(1) \/ GotoRaised(1) \/ GotoOffFails(1)
    \/ AccCheck \/ AccLock \/ AccRead(1) \/ AccSem \/ AccStore \/ AccRelease
    \/ CamCheck \/ CamTest \/ CamLock \/ CamCapture \/ CamPut \/ CamClear \/ CamCalib
    \/ ShotRequest \/ QueueGet

SpecFault == InitMoves /\ [][NextFault]_vars

\* the thread that owns the lock holds it: Camera.run inside "with self.lock:",
\* Accelerometer.run inside "with self.lock:"
HeldByOwner(name) ==
    \/ name = "camera" /\ cam_pc = "capture"
    \/ name = "accelero" /\ acc_pc \in {"read", "sem", "store", "release"}

\* C31: whenever goto has terminated (by its return, after a swallowed
\* failure of off(), or by an exception of a servo move) the internal lock
\* and every cooperating lock are released: each is free or held by the loop
\* that owns it, never by the ended goto.
C31_LocksReleasedWhenGotoEnds ==
    gpc[1] \in {"idle", "else", "ret", "raised"} =>
        /\ sem["positioner"] = 1
        /\ \A k \in 1..Len(locks) : sem[locks[k]] = 1 \/ HeldByOwner(locks[k])

\* --------------------------------------------- Camera.pause and resume
pauseOthers == <<movVars, accVars, runVars, tlVars, trajVars, expoVars, schedVars, confVars,
                 oldVars, isoVars, poolVars, warmVars, streamVars, dashVars, gainVars,
                 handleVars, quitVars>>

\* Camera.pause(wait): self.lock.acquire(blocking=wait); with wait False the
\* call returns at once, with or without the lock
Pause(wait) ==
    /\ pause_pc \in {"idle", "resumed"}
    /\ IF wait \/ sem["camera"] > 0 THEN Acquire("camera") ELSE UNCHANGED sem
    /\ pause_pc' = "paused"
    /\ UNCHANGED pauseOthers

\* Camera.resume: the statement "self.lock.release" names the method and does
\* not call it
Resume ==
    /\ pause_pc = "paused"
    /\ pause_pc' = "resumed"
    /\ UNCHANGED <<sem, pauseOthers>>

\* a thread that pauses and resumes the Camera of the TimeLapse rig, next to
\* the capture loop and a thread moving the head
NextPause ==
    \/ \E wait \in BOOLEAN : Pause(wait)
    \/ Resume
    \/ \E where \in Targets : GotoCall(1, where)
    \/ GotoLock(1) \/ GotoAcquire(1) \/ GotoMove(1) \/ GotoStop(1)
    \/ GotoRelease(1) \/ GotoUnlock(1) \/ GotoReturn(1)
    \/ CamCheck \/ CamTest \/ CamLock \/ CamCapture \/ CamPut \/ CamClear \/ CamCalib
    \/ ShotRequest \/ QueueGet

SpecPause == InitMoves /\ [][NextPause]_vars

\* C32: after pause() followed by resume() the movement-exclusion lock of the
\* Camera is free again: it is free, or held by the capture in progress or by
\* the move in progress, which give it back, so that a following capture or
\* move is not blocked for ever.
C32_LockFreeAfterResume ==
    LET k == CHOOSE i \in 1..Len(locks) : locks[i] = "camera"
        GotoHolds == \/ gpc[1] \in {"move", "sleep"}
                     \/ gpc[1] = "acquire" /\ gk[1] > k
                     \/ gpc[1] = "release" /\ gk[1] <= k
    IN  pause_pc = "resumed" =>
            sem["camera"] = 1 \/ HeldByOwner("camera") \/ GotoHolds

\* ------------------------------------------- claims on concurrent moves
\* C33: when goto(P) returns the move that brought the rig to P is over
\* (delay slept, servos off, cooperating locks released): no call of goto is
\* at its return while the move of another thread toward the same P is still
\* between the servo commands and the release of the internal lock.
C33_ReturnMeansMoveDone ==
    \A c, d \in 1..NCallers :
        (c # d /\ gpc[c] \in {"else", "ret"} /\ gwhere[c] = gwhere[d]) =>
            gpc[d] \notin {"sleep", "release", "unlock"}

\* ------------------------------------------------ the four locks, fairly
\* the steps of each thread once it runs: goto after its call, Camera.run,
\* Accelerometer.run, Accelerometer.get after its call
GotoRun ==
    \/ GotoLock(1) \/ GotoAcquire(1) \/ GotoMove(1) \/ GotoStop(1)
    \/ GotoRelease(1) \/ GotoUnlock(1) \/ GotoReturn(1)

CamRun == CamCheck \/ CamTest \/ CamLock \/ CamCapture \/ CamPut \/ CamClear \/ CamCalib

AccRun == AccCheck \/ AccLock \/ AccRead(1) \/ AccSem \/ AccStore \/ AccRelease

GetRun == GetEnter \/ GetField \/ GetReturn

\* the TimeLapse rig: a thread moving the head, the capture loop, the sampling
\* loop and a thread reading the gravity
NextLocks ==
    \/ \E where \in Targets : GotoCall(1, where)
    \/ GotoRun \/ CamRun \/ AccRun
    \/ GetCall \/ GetRun
    \/ ShotRequest \/ QueueGet

\* every thread keeps running, and goto and the sampling loop, when they wait
\* for a Semaphore that is released again and again, get it in the end: the
\* loops sleep after each release (time.sleep(0.1 / framerate), time.sleep(0.1))
FairLocks ==
    /\ SF_vars(GotoRun) /\ SF_vars(AccRun) /\ WF_vars(CamRun) /\ WF_vars(GetRun)

SpecLocks == InitMoves /\ [][NextLocks]_vars /\ FairLocks

\* C34: with the capture loop, the sampling loop, a reader of the gravity and
\* the thread calling goto running together, no thread waits for a lock held,
\* directly or through other waiting threads, by a thread that waits as well
\* (no wait cycle among the internal lock, the camera lock, the pause lock and
\* the consistency lock), and under fair scheduling every goto that started
\* returns.
C34_NoDeadlockAndGotoCompletes ==
    LET Threads == {"goto", "camera", "accelero", "get"}
        Waits(t) ==
            IF t = "goto" THEN (IF gpc[1] = "lock" THEN "positioner"
                                ELSE IF gpc[1] = "acquire" THEN locks[gk[1]] ELSE "none")
            ELSE IF t = "camera" THEN (IF cam_pc = "lock" THEN "camera" ELSE "none")
            ELSE IF t = "accelero" THEN (IF acc_pc = "lock" THEN "accelero"
                                         ELSE IF acc_pc = "sem" THEN "accelero_sem" ELSE "none")
            ELSE (IF get_pc = "sem" THEN "accelero_sem" ELSE "none")
        Holds(t, n) ==
            IF t = "goto"
            THEN \/ n = "positioner" /\ gpc[1] \in {"acquire", "move", "sleep", "release", "unlock"}
                 \/ \E k \in 1..Len(locks) :
                        /\ locks[k] = n
                        /\ \/ gpc[1] \in {"move", "sleep"}
                           \/ gpc[1] = "acquire" /\ gk[1] > k
                           \/ gpc[1] = "release" /\ gk[1] <= k
            ELSE IF t = "camera" THEN n = "camera" /\ cam_pc = "capture"
            ELSE IF t = "accelero"
            THEN \/ n = "accelero" /\ acc_pc \in {"read", "sem", "store", "release"}
                 \/ n = "accelero_sem" /\ acc_pc = "store"
            ELSE n = "accelero_sem" /\ get_pc \in {"x", "y", "z", "t", "exit"}
        Blocked(t) == Waits(t) # "none" /\ sem[Waits(t)] = 0
        Free0(t) == ~Blocked(t)
        Free1(t) == Free0(t) \/ \E u \in Threads \ {t} : Holds(u, Waits(t)) /\ Free0(u)
        Free2(t) == Free0(t) \/ \E u \in Threads \ {t} : Holds(u, Waits(t)) /\ Free1(u)
        Free3(t) == Free0(t) \/ \E u \in Threads \ {t} : Holds(u, Waits(t)) /\ Free2(u)
    IN  /\ [](\A t \in Threads : Free3(t))
        /\ (gpc[1] # "idle") ~> (gpc[1] = "idle")

\* the goto waits for the camera lock while a capture holds it, and the
\* sampling loop, holding the pause lock, waits for the consistency lock
\* while get holds it
C34_Witness ==
    /\ gpc[1] = "acquire" /\ locks[gk[1]] = "camera" /\ sem["camera"] = 0
    /\ cam_pc = "capture"
    /\ acc_pc = "sem" /\ sem["accelero_sem"] = 0 /\ get_pc \in {"x", "y", "z", "t", "exit"}

\* ------------------------------------------ claims on the range of the ISO
\* C35: every update_expo leaves the ISO of the camera within 100..800, so
\* the ISO is never 0 and the division of the shutter computation,
\* 1e6 / (speed100 * new_iso / 100), never raises.
C35_IsoStaysInRange ==
    [][\A speed10 \in Speeds10 :
          UpdateIso(speed10) =>
              /\ iso' \in 100..800
              /\ expo_raised' = "none"]_vars

\* ------------------------------------------ claims on the published frames
\* C36: every frame published by StreamingOutput, and so every frame that
\* Server.stream returns, is not empty and begins with the marker FF D8,
\* whatever the chunks written, the first one included.
C36_PublishedFrameIsJpeg ==
    so_frame # << >> => (Len(so_frame[1]) > 0 /\ StartsWithSOI(so_frame[1]))

\* ------------------------------- claims on the position the server records
\* C37: after every request, answered by a page or by an error, the position
\* the Server recorded is the position the Positioner stored, so that the
\* next relative jog starts from where the rig is.
C37_RecordedPositionIsRigPosition ==
    srv_requests > 0 => current_pos = <<position>>

\* ------------------------------ claims on the replaced list of waypoints
\* C38: after load_config (set_config) replaced the waypoint list of the
\* running Trajectory, the pre-start position follows the new list:
\* calc_pos(0) equals calc_pos(-1), the first waypoint of the new list, where
\* the interpolation toward the first waypoint starts.
C38_DefaultFollowsNewConfig ==
    [][\A p \in Paths :
          (LoadConfig(p) /\ config' # config) =>
              /\ calc_pos(config', default_pos', 0) = calc_pos(config', default_pos', 0 - 1)
              /\ default_pos' = WayPos(config'[1])]_vars

====
